---- MODULE Spec2Model ----
(***************************************************************************)
(* Model of networkhealth.py: the neighbor-name validator                  *)
(* (extract_bad_ap_names), the analyzer (analyze_all) and the per-device   *)
(* collection loop of the script.                                          *)
(*                                                                         *)
(* A Python str is the sequence of its code points (0 .. 1114111); the     *)
(* text a literal stands for is given in the comment at the end of its     *)
(* line.  Python's None is the value None below, which is no str.          *)
(* A Python int is unbounded and is kept as the sequence of its decimal    *)
(* digits (values 0 .. 9, most significant first, no leading zero).        *)
(* A Python float is an IEEE 754 double, kept as a 53-bit significand and  *)
(* a binary exponent; naturals too large for a machine word are sequences  *)
(* of 15-bit limbs.                                                        *)
(* The character tables are those of Unicode 14.0.0 (CPython 3.11).        *)
(***************************************************************************)
EXTENDS Integers, Sequences, FiniteSets, TLC

\* ------------------------------------------------------------------------
\* Bounds of the explored inputs.
\* ------------------------------------------------------------------------
MaxCdpLines == 6
MaxIfRows == 3
MaxCpuParts == 2
MaxDevices == 2

\* ------------------------------------------------------------------------
\* Python str methods used by the script.
\* ------------------------------------------------------------------------
None == <<0 - 1>>

SeqRange(s) == {s[i] : i \in DOMAIN s}
SetMin(S) == CHOOSE x \in S : \A y \in S : x <= y
SetMax(S) == CHOOSE x \in S : \A y \in S : x >= y

\* c lies in one of the ranges <<first, last>> of the table
InRanges(c, table) == \E i \in DOMAIN table : table[i][1] <= c /\ c <= table[i][2]

\* bool(x) of a value that is None or a str
Truthy(x) == x # None /\ x # <<>>

\* the code points str.isspace holds for
SpaceChars == {9, 10, 11, 12, 13, 28, 29, 30, 31, 32, 133, 160, 5760, 8192, 8193, 8194, 8195, 8196, 8197, 8198, 8199, 8200, 8201, 8202, 8232, 8233, 8239, 8287, 12288}
\* str.isspace of one character: what strip() removes and split() splits at
IsSpace(c) == c \in SpaceChars

\* the line boundaries of str.splitlines
LineBreakChars == {10, 11, 12, 13, 28, 29, 30, 133, 8232, 8233}
IsLineBreak(c) == c \in LineBreakChars

\* the code points with a one-character lower case of their own: those of a
\* run <<first, last, step, delta>> that lie a multiple of step after first
\* map to themselves plus delta
LowerRuns == <<
  <<65, 90, 1, 32>>, <<192, 214, 1, 32>>, <<216, 222, 1, 32>>, <<256, 302, 2, 1>>,
  <<306, 310, 2, 1>>, <<313, 327, 2, 1>>, <<330, 374, 2, 1>>, <<376, 376, 1, -121>>,
  <<377, 381, 2, 1>>, <<385, 385, 1, 210>>, <<386, 388, 2, 1>>, <<390, 390, 1, 206>>,
  <<391, 391, 1, 1>>, <<393, 394, 1, 205>>, <<395, 395, 1, 1>>, <<398, 398, 1, 79>>,
  <<399, 399, 1, 202>>, <<400, 400, 1, 203>>, <<401, 401, 1, 1>>, <<403, 403, 1, 205>>,
  <<404, 404, 1, 207>>, <<406, 406, 1, 211>>, <<407, 407, 1, 209>>, <<408, 408, 1, 1>>,
  <<412, 412, 1, 211>>, <<413, 413, 1, 213>>, <<415, 415, 1, 214>>, <<416, 420, 2, 1>>,
  <<422, 422, 1, 218>>, <<423, 423, 1, 1>>, <<425, 425, 1, 218>>, <<428, 428, 1, 1>>,
  <<430, 430, 1, 218>>, <<431, 431, 1, 1>>, <<433, 434, 1, 217>>, <<435, 437, 2, 1>>,
  <<439, 439, 1, 219>>, <<440, 440, 1, 1>>, <<444, 444, 1, 1>>, <<452, 452, 1, 2>>,
  <<453, 453, 1, 1>>, <<455, 455, 1, 2>>, <<456, 456, 1, 1>>, <<458, 458, 1, 2>>,
  <<459, 475, 2, 1>>, <<478, 494, 2, 1>>, <<497, 497, 1, 2>>, <<498, 500, 2, 1>>,
  <<502, 502, 1, -97>>, <<503, 503, 1, -56>>, <<504, 542, 2, 1>>, <<544, 544, 1, -130>>,
  <<546, 562, 2, 1>>, <<570, 570, 1, 10795>>, <<571, 571, 1, 1>>, <<573, 573, 1, -163>>,
  <<574, 574, 1, 10792>>, <<577, 577, 1, 1>>, <<579, 579, 1, -195>>, <<580, 580, 1, 69>>,
  <<581, 581, 1, 71>>, <<582, 590, 2, 1>>, <<880, 882, 2, 1>>, <<886, 886, 1, 1>>,
  <<895, 895, 1, 116>>, <<902, 902, 1, 38>>, <<904, 906, 1, 37>>, <<908, 908, 1, 64>>,
  <<910, 911, 1, 63>>, <<913, 929, 1, 32>>, <<931, 939, 1, 32>>, <<975, 975, 1, 8>>,
  <<984, 1006, 2, 1>>, <<1012, 1012, 1, -60>>, <<1015, 1015, 1, 1>>, <<1017, 1017, 1, -7>>,
  <<1018, 1018, 1, 1>>, <<1021, 1023, 1, -130>>, <<1024, 1039, 1, 80>>, <<1040, 1071, 1, 32>>,
  <<1120, 1152, 2, 1>>, <<1162, 1214, 2, 1>>, <<1216, 1216, 1, 15>>, <<1217, 1229, 2, 1>>,
  <<1232, 1326, 2, 1>>, <<1329, 1366, 1, 48>>, <<4256, 4293, 1, 7264>>,
  <<4295, 4295, 1, 7264>>, <<4301, 4301, 1, 7264>>, <<5024, 5103, 1, 38864>>,
  <<5104, 5109, 1, 8>>, <<7312, 7354, 1, -3008>>, <<7357, 7359, 1, -3008>>,
  <<7680, 7828, 2, 1>>, <<7838, 7838, 1, -7615>>, <<7840, 7934, 2, 1>>, <<7944, 7951, 1, -8>>,
  <<7960, 7965, 1, -8>>, <<7976, 7983, 1, -8>>, <<7992, 7999, 1, -8>>, <<8008, 8013, 1, -8>>,
  <<8025, 8025, 1, -8>>, <<8027, 8027, 1, -8>>, <<8029, 8029, 1, -8>>, <<8031, 8031, 1, -8>>,
  <<8040, 8047, 1, -8>>, <<8072, 8079, 1, -8>>, <<8088, 8095, 1, -8>>, <<8104, 8111, 1, -8>>,
  <<8120, 8121, 1, -8>>, <<8122, 8123, 1, -74>>, <<8124, 8124, 1, -9>>, <<8136, 8139, 1, -86>>,
  <<8140, 8140, 1, -9>>, <<8152, 8153, 1, -8>>, <<8154, 8155, 1, -100>>, <<8168, 8169, 1, -8>>,
  <<8170, 8171, 1, -112>>, <<8172, 8172, 1, -7>>, <<8184, 8185, 1, -128>>,
  <<8186, 8187, 1, -126>>, <<8188, 8188, 1, -9>>, <<8486, 8486, 1, -7517>>,
  <<8490, 8490, 1, -8383>>, <<8491, 8491, 1, -8262>>, <<8498, 8498, 1, 28>>,
  <<8544, 8559, 1, 16>>, <<8579, 8579, 1, 1>>, <<9398, 9423, 1, 26>>, <<11264, 11311, 1, 48>>,
  <<11360, 11360, 1, 1>>, <<11362, 11362, 1, -10743>>, <<11363, 11363, 1, -3814>>,
  <<11364, 11364, 1, -10727>>, <<11367, 11371, 2, 1>>, <<11373, 11373, 1, -10780>>,
  <<11374, 11374, 1, -10749>>, <<11375, 11375, 1, -10783>>, <<11376, 11376, 1, -10782>>,
  <<11378, 11378, 1, 1>>, <<11381, 11381, 1, 1>>, <<11390, 11391, 1, -10815>>,
  <<11392, 11490, 2, 1>>, <<11499, 11501, 2, 1>>, <<11506, 11506, 1, 1>>,
  <<42560, 42604, 2, 1>>, <<42624, 42650, 2, 1>>, <<42786, 42798, 2, 1>>,
  <<42802, 42862, 2, 1>>, <<42873, 42875, 2, 1>>, <<42877, 42877, 1, -35332>>,
  <<42878, 42886, 2, 1>>, <<42891, 42891, 1, 1>>, <<42893, 42893, 1, -42280>>,
  <<42896, 42898, 2, 1>>, <<42902, 42920, 2, 1>>, <<42922, 42922, 1, -42308>>,
  <<42923, 42923, 1, -42319>>, <<42924, 42924, 1, -42315>>, <<42925, 42925, 1, -42305>>,
  <<42926, 42926, 1, -42308>>, <<42928, 42928, 1, -42258>>, <<42929, 42929, 1, -42282>>,
  <<42930, 42930, 1, -42261>>, <<42931, 42931, 1, 928>>, <<42932, 42946, 2, 1>>,
  <<42948, 42948, 1, -48>>, <<42949, 42949, 1, -42307>>, <<42950, 42950, 1, -35384>>,
  <<42951, 42953, 2, 1>>, <<42960, 42960, 1, 1>>, <<42966, 42968, 2, 1>>,
  <<42997, 42997, 1, 1>>, <<65313, 65338, 1, 32>>, <<66560, 66599, 1, 40>>,
  <<66736, 66771, 1, 40>>, <<66928, 66938, 1, 39>>, <<66940, 66954, 1, 39>>,
  <<66956, 66962, 1, 39>>, <<66964, 66965, 1, 39>>, <<68736, 68786, 1, 64>>,
  <<71840, 71871, 1, 32>>, <<93760, 93791, 1, 32>>, <<125184, 125217, 1, 34>> >>

\* the case-ignorable code points, and the cased ones that are not
\* case-ignorable (the two properties the rule of the final sigma asks about)
CaseIgnorableRanges == <<
  <<39, 39>>, <<46, 46>>, <<58, 58>>, <<94, 94>>, <<96, 96>>, <<168, 168>>, <<173, 173>>,
  <<175, 175>>, <<180, 180>>, <<183, 184>>, <<688, 879>>, <<884, 885>>, <<890, 890>>,
  <<900, 901>>, <<903, 903>>, <<1155, 1161>>, <<1369, 1369>>, <<1375, 1375>>, <<1425, 1469>>,
  <<1471, 1471>>, <<1473, 1474>>, <<1476, 1477>>, <<1479, 1479>>, <<1524, 1524>>,
  <<1536, 1541>>, <<1552, 1562>>, <<1564, 1564>>, <<1600, 1600>>, <<1611, 1631>>,
  <<1648, 1648>>, <<1750, 1757>>, <<1759, 1768>>, <<1770, 1773>>, <<1807, 1807>>,
  <<1809, 1809>>, <<1840, 1866>>, <<1958, 1968>>, <<2027, 2037>>, <<2042, 2042>>,
  <<2045, 2045>>, <<2070, 2093>>, <<2137, 2139>>, <<2184, 2184>>, <<2192, 2193>>,
  <<2200, 2207>>, <<2249, 2306>>, <<2362, 2362>>, <<2364, 2364>>, <<2369, 2376>>,
  <<2381, 2381>>, <<2385, 2391>>, <<2402, 2403>>, <<2417, 2417>>, <<2433, 2433>>,
  <<2492, 2492>>, <<2497, 2500>>, <<2509, 2509>>, <<2530, 2531>>, <<2558, 2558>>,
  <<2561, 2562>>, <<2620, 2620>>, <<2625, 2626>>, <<2631, 2632>>, <<2635, 2637>>,
  <<2641, 2641>>, <<2672, 2673>>, <<2677, 2677>>, <<2689, 2690>>, <<2748, 2748>>,
  <<2753, 2757>>, <<2759, 2760>>, <<2765, 2765>>, <<2786, 2787>>, <<2810, 2815>>,
  <<2817, 2817>>, <<2876, 2876>>, <<2879, 2879>>, <<2881, 2884>>, <<2893, 2893>>,
  <<2901, 2902>>, <<2914, 2915>>, <<2946, 2946>>, <<3008, 3008>>, <<3021, 3021>>,
  <<3072, 3072>>, <<3076, 3076>>, <<3132, 3132>>, <<3134, 3136>>, <<3142, 3144>>,
  <<3146, 3149>>, <<3157, 3158>>, <<3170, 3171>>, <<3201, 3201>>, <<3260, 3260>>,
  <<3263, 3263>>, <<3270, 3270>>, <<3276, 3277>>, <<3298, 3299>>, <<3328, 3329>>,
  <<3387, 3388>>, <<3393, 3396>>, <<3405, 3405>>, <<3426, 3427>>, <<3457, 3457>>,
  <<3530, 3530>>, <<3538, 3540>>, <<3542, 3542>>, <<3633, 3633>>, <<3636, 3642>>,
  <<3654, 3662>>, <<3761, 3761>>, <<3764, 3772>>, <<3782, 3782>>, <<3784, 3789>>,
  <<3864, 3865>>, <<3893, 3893>>, <<3895, 3895>>, <<3897, 3897>>, <<3953, 3966>>,
  <<3968, 3972>>, <<3974, 3975>>, <<3981, 3991>>, <<3993, 4028>>, <<4038, 4038>>,
  <<4141, 4144>>, <<4146, 4151>>, <<4153, 4154>>, <<4157, 4158>>, <<4184, 4185>>,
  <<4190, 4192>>, <<4209, 4212>>, <<4226, 4226>>, <<4229, 4230>>, <<4237, 4237>>,
  <<4253, 4253>>, <<4348, 4348>>, <<4957, 4959>>, <<5906, 5908>>, <<5938, 5939>>,
  <<5970, 5971>>, <<6002, 6003>>, <<6068, 6069>>, <<6071, 6077>>, <<6086, 6086>>,
  <<6089, 6099>>, <<6103, 6103>>, <<6109, 6109>>, <<6155, 6159>>, <<6211, 6211>>,
  <<6277, 6278>>, <<6313, 6313>>, <<6432, 6434>>, <<6439, 6440>>, <<6450, 6450>>,
  <<6457, 6459>>, <<6679, 6680>>, <<6683, 6683>>, <<6742, 6742>>, <<6744, 6750>>,
  <<6752, 6752>>, <<6754, 6754>>, <<6757, 6764>>, <<6771, 6780>>, <<6783, 6783>>,
  <<6823, 6823>>, <<6832, 6862>>, <<6912, 6915>>, <<6964, 6964>>, <<6966, 6970>>,
  <<6972, 6972>>, <<6978, 6978>>, <<7019, 7027>>, <<7040, 7041>>, <<7074, 7077>>,
  <<7080, 7081>>, <<7083, 7085>>, <<7142, 7142>>, <<7144, 7145>>, <<7149, 7149>>,
  <<7151, 7153>>, <<7212, 7219>>, <<7222, 7223>>, <<7288, 7293>>, <<7376, 7378>>,
  <<7380, 7392>>, <<7394, 7400>>, <<7405, 7405>>, <<7412, 7412>>, <<7416, 7417>>,
  <<7468, 7530>>, <<7544, 7544>>, <<7579, 7679>>, <<8125, 8125>>, <<8127, 8129>>,
  <<8141, 8143>>, <<8157, 8159>>, <<8173, 8175>>, <<8189, 8190>>, <<8203, 8207>>,
  <<8216, 8217>>, <<8228, 8228>>, <<8231, 8231>>, <<8234, 8238>>, <<8288, 8292>>,
  <<8294, 8303>>, <<8305, 8305>>, <<8319, 8319>>, <<8336, 8348>>, <<8400, 8432>>,
  <<11388, 11389>>, <<11503, 11505>>, <<11631, 11631>>, <<11647, 11647>>, <<11744, 11775>>,
  <<11823, 11823>>, <<12293, 12293>>, <<12330, 12333>>, <<12337, 12341>>, <<12347, 12347>>,
  <<12441, 12446>>, <<12540, 12542>>, <<40981, 40981>>, <<42232, 42237>>, <<42508, 42508>>,
  <<42607, 42610>>, <<42612, 42621>>, <<42623, 42623>>, <<42652, 42655>>, <<42736, 42737>>,
  <<42752, 42785>>, <<42864, 42864>>, <<42888, 42890>>, <<42994, 42996>>, <<43000, 43001>>,
  <<43010, 43010>>, <<43014, 43014>>, <<43019, 43019>>, <<43045, 43046>>, <<43052, 43052>>,
  <<43204, 43205>>, <<43232, 43249>>, <<43263, 43263>>, <<43302, 43309>>, <<43335, 43345>>,
  <<43392, 43394>>, <<43443, 43443>>, <<43446, 43449>>, <<43452, 43453>>, <<43471, 43471>>,
  <<43493, 43494>>, <<43561, 43566>>, <<43569, 43570>>, <<43573, 43574>>, <<43587, 43587>>,
  <<43596, 43596>>, <<43632, 43632>>, <<43644, 43644>>, <<43696, 43696>>, <<43698, 43700>>,
  <<43703, 43704>>, <<43710, 43711>>, <<43713, 43713>>, <<43741, 43741>>, <<43756, 43757>>,
  <<43763, 43764>>, <<43766, 43766>>, <<43867, 43871>>, <<43881, 43883>>, <<44005, 44005>>,
  <<44008, 44008>>, <<44013, 44013>>, <<64286, 64286>>, <<64434, 64450>>, <<65024, 65039>>,
  <<65043, 65043>>, <<65056, 65071>>, <<65106, 65106>>, <<65109, 65109>>, <<65279, 65279>>,
  <<65287, 65287>>, <<65294, 65294>>, <<65306, 65306>>, <<65342, 65342>>, <<65344, 65344>>,
  <<65392, 65392>>, <<65438, 65439>>, <<65507, 65507>>, <<65529, 65531>>, <<66045, 66045>>,
  <<66272, 66272>>, <<66422, 66426>>, <<67456, 67461>>, <<67463, 67504>>, <<67506, 67514>>,
  <<68097, 68099>>, <<68101, 68102>>, <<68108, 68111>>, <<68152, 68154>>, <<68159, 68159>>,
  <<68325, 68326>>, <<68900, 68903>>, <<69291, 69292>>, <<69446, 69456>>, <<69506, 69509>>,
  <<69633, 69633>>, <<69688, 69702>>, <<69744, 69744>>, <<69747, 69748>>, <<69759, 69761>>,
  <<69811, 69814>>, <<69817, 69818>>, <<69821, 69821>>, <<69826, 69826>>, <<69837, 69837>>,
  <<69888, 69890>>, <<69927, 69931>>, <<69933, 69940>>, <<70003, 70003>>, <<70016, 70017>>,
  <<70070, 70078>>, <<70089, 70092>>, <<70095, 70095>>, <<70191, 70193>>, <<70196, 70196>>,
  <<70198, 70199>>, <<70206, 70206>>, <<70367, 70367>>, <<70371, 70378>>, <<70400, 70401>>,
  <<70459, 70460>>, <<70464, 70464>>, <<70502, 70508>>, <<70512, 70516>>, <<70712, 70719>>,
  <<70722, 70724>>, <<70726, 70726>>, <<70750, 70750>>, <<70835, 70840>>, <<70842, 70842>>,
  <<70847, 70848>>, <<70850, 70851>>, <<71090, 71093>>, <<71100, 71101>>, <<71103, 71104>>,
  <<71132, 71133>>, <<71219, 71226>>, <<71229, 71229>>, <<71231, 71232>>, <<71339, 71339>>,
  <<71341, 71341>>, <<71344, 71349>>, <<71351, 71351>>, <<71453, 71455>>, <<71458, 71461>>,
  <<71463, 71467>>, <<71727, 71735>>, <<71737, 71738>>, <<71995, 71996>>, <<71998, 71998>>,
  <<72003, 72003>>, <<72148, 72151>>, <<72154, 72155>>, <<72160, 72160>>, <<72193, 72202>>,
  <<72243, 72248>>, <<72251, 72254>>, <<72263, 72263>>, <<72273, 72278>>, <<72281, 72283>>,
  <<72330, 72342>>, <<72344, 72345>>, <<72752, 72758>>, <<72760, 72765>>, <<72767, 72767>>,
  <<72850, 72871>>, <<72874, 72880>>, <<72882, 72883>>, <<72885, 72886>>, <<73009, 73014>>,
  <<73018, 73018>>, <<73020, 73021>>, <<73023, 73029>>, <<73031, 73031>>, <<73104, 73105>>,
  <<73109, 73109>>, <<73111, 73111>>, <<73459, 73460>>, <<78896, 78904>>, <<92912, 92916>>,
  <<92976, 92982>>, <<92992, 92995>>, <<94031, 94031>>, <<94095, 94111>>, <<94176, 94177>>,
  <<94179, 94180>>, <<110576, 110579>>, <<110581, 110587>>, <<110589, 110590>>,
  <<113821, 113822>>, <<113824, 113827>>, <<118528, 118573>>, <<118576, 118598>>,
  <<119143, 119145>>, <<119155, 119170>>, <<119173, 119179>>, <<119210, 119213>>,
  <<119362, 119364>>, <<121344, 121398>>, <<121403, 121452>>, <<121461, 121461>>,
  <<121476, 121476>>, <<121499, 121503>>, <<121505, 121519>>, <<122880, 122886>>,
  <<122888, 122904>>, <<122907, 122913>>, <<122915, 122916>>, <<122918, 122922>>,
  <<123184, 123197>>, <<123566, 123566>>, <<123628, 123631>>, <<125136, 125142>>,
  <<125252, 125259>>, <<127995, 127999>>, <<917505, 917505>>, <<917536, 917631>>,
  <<917760, 917999>> >>
CasedRanges == <<
  <<65, 90>>, <<97, 122>>, <<170, 170>>, <<181, 181>>, <<186, 186>>, <<192, 214>>,
  <<216, 246>>, <<248, 442>>, <<444, 447>>, <<452, 659>>, <<661, 687>>, <<880, 883>>,
  <<886, 887>>, <<891, 893>>, <<895, 895>>, <<902, 902>>, <<904, 906>>, <<908, 908>>,
  <<910, 929>>, <<931, 1013>>, <<1015, 1153>>, <<1162, 1327>>, <<1329, 1366>>, <<1376, 1416>>,
  <<4256, 4293>>, <<4295, 4295>>, <<4301, 4301>>, <<4304, 4346>>, <<4349, 4351>>,
  <<5024, 5109>>, <<5112, 5117>>, <<7296, 7304>>, <<7312, 7354>>, <<7357, 7359>>,
  <<7424, 7467>>, <<7531, 7543>>, <<7545, 7578>>, <<7680, 7957>>, <<7960, 7965>>,
  <<7968, 8005>>, <<8008, 8013>>, <<8016, 8023>>, <<8025, 8025>>, <<8027, 8027>>,
  <<8029, 8029>>, <<8031, 8061>>, <<8064, 8116>>, <<8118, 8124>>, <<8126, 8126>>,
  <<8130, 8132>>, <<8134, 8140>>, <<8144, 8147>>, <<8150, 8155>>, <<8160, 8172>>,
  <<8178, 8180>>, <<8182, 8188>>, <<8450, 8450>>, <<8455, 8455>>, <<8458, 8467>>,
  <<8469, 8469>>, <<8473, 8477>>, <<8484, 8484>>, <<8486, 8486>>, <<8488, 8488>>,
  <<8490, 8493>>, <<8495, 8500>>, <<8505, 8505>>, <<8508, 8511>>, <<8517, 8521>>,
  <<8526, 8526>>, <<8544, 8575>>, <<8579, 8580>>, <<9398, 9449>>, <<11264, 11387>>,
  <<11390, 11492>>, <<11499, 11502>>, <<11506, 11507>>, <<11520, 11557>>, <<11559, 11559>>,
  <<11565, 11565>>, <<42560, 42605>>, <<42624, 42651>>, <<42786, 42863>>, <<42865, 42887>>,
  <<42891, 42894>>, <<42896, 42954>>, <<42960, 42961>>, <<42963, 42963>>, <<42965, 42969>>,
  <<42997, 42998>>, <<43002, 43002>>, <<43824, 43866>>, <<43872, 43880>>, <<43888, 43967>>,
  <<64256, 64262>>, <<64275, 64279>>, <<65313, 65338>>, <<65345, 65370>>, <<66560, 66639>>,
  <<66736, 66771>>, <<66776, 66811>>, <<66928, 66938>>, <<66940, 66954>>, <<66956, 66962>>,
  <<66964, 66965>>, <<66967, 66977>>, <<66979, 66993>>, <<66995, 67001>>, <<67003, 67004>>,
  <<68736, 68786>>, <<68800, 68850>>, <<71840, 71903>>, <<93760, 93823>>, <<119808, 119892>>,
  <<119894, 119964>>, <<119966, 119967>>, <<119970, 119970>>, <<119973, 119974>>,
  <<119977, 119980>>, <<119982, 119993>>, <<119995, 119995>>, <<119997, 120003>>,
  <<120005, 120069>>, <<120071, 120074>>, <<120077, 120084>>, <<120086, 120092>>,
  <<120094, 120121>>, <<120123, 120126>>, <<120128, 120132>>, <<120134, 120134>>,
  <<120138, 120144>>, <<120146, 120485>>, <<120488, 120512>>, <<120514, 120538>>,
  <<120540, 120570>>, <<120572, 120596>>, <<120598, 120628>>, <<120630, 120654>>,
  <<120656, 120686>>, <<120688, 120712>>, <<120714, 120744>>, <<120746, 120770>>,
  <<120772, 120779>>, <<122624, 122633>>, <<122635, 122654>>, <<125184, 125251>>,
  <<127280, 127305>>, <<127312, 127337>>, <<127344, 127369>> >>
IsCaseIgnorable(c) == InRanges(c, CaseIgnorableRanges)
IsCased(c) == InRanges(c, CasedRanges)

\* the lower case of a code point that maps to one code point
lower_one(c) ==
  IF c < 128 THEN (IF 65 <= c /\ c <= 90 THEN c + 32 ELSE c)
  ELSE LET delta(runs) ==
             LET hits == {i \in DOMAIN runs :
                            /\ runs[i][1] <= c /\ c <= runs[i][2]
                            /\ (c - runs[i][1]) % runs[i][3] = 0}
             IN  IF hits = {} THEN 0 ELSE runs[CHOOSE i \in hits : TRUE][4]
       IN  c + delta(LowerRuns)

\* the capital sigma s[i] is final: a cased character comes before it, with
\* only case-ignorable ones between, and none comes after it in the same way
final_sigma(s, i) ==
  LET rule(others, cased) ==
        LET before == {j \in others : j < i}
            after  == {j \in others : j > i}
        IN  /\ before # {} /\ SetMax(before) \in cased
            /\ (after = {} \/ SetMin(after) \notin cased)
  IN  rule({j \in DOMAIN s : ~IsCaseIgnorable(s[j])}, {j \in DOMAIN s : IsCased(s[j])})

\* what s[i] becomes in s.lower(): one code point, or two for U+0130
LowerChar(s, i) ==
  IF s[i] = 304 THEN <<105, 775>>
  ELSE IF s[i] = 931 THEN (IF final_sigma(s, i) THEN <<962>> ELSE <<963>>)
  ELSE <<lower_one(s[i])>>

\* s.lower()
lower(s) ==
  LET n      == Len(s)
      dotted == {i \in 1..n : s[i] = 304}
      pos(i) == i + Cardinality({d \in dotted : d < i})
      src(p) == IF dotted = {} THEN p
                ELSE CHOOSE i \in 1..n : pos(i) <= p /\ p <= pos(i) + (IF i \in dotted THEN 1 ELSE 0)
  IN  [p \in 1..(n + Cardinality(dotted)) |-> LowerChar(s, src(p))[p - pos(src(p)) + 1]]

\* s.strip()
strip(s) ==
  LET keep == {i \in 1..Len(s) : ~IsSpace(s[i])}
  IN  IF keep = {} THEN <<>> ELSE SubSeq(s, SetMin(keep), SetMax(keep))

\* s.startswith(p)
startswith(s, p) == Len(s) >= Len(p) /\ SubSeq(s, 1, Len(p)) = p

\* s.find(p, from) with positions counted from 1; 0 when p does not occur
find(s, p, from) ==
  LET at == {i \in from..(Len(s) - Len(p) + 1) : SubSeq(s, i, i + Len(p) - 1) = p}
  IN  IF at = {} THEN 0 ELSE SetMin(at)

\* p in s
contains(s, p) == find(s, p, 1) # 0

\* the k-th smallest element of a set of integers
Nth(S, k) == CHOOSE x \in S : Cardinality({y \in S : y < x}) = k - 1

\* s.splitlines(): a line ends at each line boundary ("\r\n" is one boundary),
\* and what follows the last boundary is a line when it is not empty
splitlines(s) ==
  LET n      == Len(s)
      breaks == {i \in 1..n : IsLineBreak(s[i]) /\ ~(s[i] = 10 /\ i > 1 /\ s[i - 1] = 13)}
      after(b) == IF s[b] = 13 /\ b < n /\ s[b + 1] = 10 THEN b + 2 ELSE b + 1
      m      == Cardinality(breaks)
      from(k) == IF k = 1 THEN 1 ELSE after(Nth(breaks, k - 1))
      rest   == from(m + 1)
  IN  [k \in 1..m |-> SubSeq(s, from(k), Nth(breaks, k) - 1)]
        \o (IF rest <= n THEN <<SubSeq(s, rest, n)>> ELSE <<>>)

\* s.split(): the maximal runs of characters that are not white space
split(s) ==
  LET n      == Len(s)
      starts == {i \in 1..n : ~IsSpace(s[i]) /\ (i = 1 \/ IsSpace(s[i - 1]))}
      end(i) == SetMin({j \in i..n : j = n \/ IsSpace(s[j + 1])})
  IN  [k \in 1..Cardinality(starts) |-> SubSeq(s, Nth(starts, k), end(Nth(starts, k)))]

RECURSIVE split_sep(_, _)
\* s.split(sep): the pieces of s between the occurrences of sep
split_sep(s, sep) ==
  LET k == find(s, sep, 1)
  IN  IF k = 0 THEN <<s>>
      ELSE <<SubSeq(s, 1, k - 1)>> \o split_sep(SubSeq(s, k + Len(sep), Len(s)), sep)

RECURSIVE join(_, _)
\* sep.join(parts)
join(sep, parts) ==
  IF parts = <<>> THEN <<>>
  ELSE IF Len(parts) = 1 THEN parts[1]
  ELSE parts[1] \o sep \o join(sep, Tail(parts))

\* the decimal digits of the regular expressions' \d, of int() and of float()
DigitRanges == <<
  <<48, 57>>, <<1632, 1641>>, <<1776, 1785>>, <<1984, 1993>>, <<2406, 2415>>, <<2534, 2543>>,
  <<2662, 2671>>, <<2790, 2799>>, <<2918, 2927>>, <<3046, 3055>>, <<3174, 3183>>,
  <<3302, 3311>>, <<3430, 3439>>, <<3558, 3567>>, <<3664, 3673>>, <<3792, 3801>>,
  <<3872, 3881>>, <<4160, 4169>>, <<4240, 4249>>, <<6112, 6121>>, <<6160, 6169>>,
  <<6470, 6479>>, <<6608, 6617>>, <<6784, 6793>>, <<6800, 6809>>, <<6992, 7001>>,
  <<7088, 7097>>, <<7232, 7241>>, <<7248, 7257>>, <<42528, 42537>>, <<43216, 43225>>,
  <<43264, 43273>>, <<43472, 43481>>, <<43504, 43513>>, <<43600, 43609>>, <<44016, 44025>>,
  <<65296, 65305>>, <<66720, 66729>>, <<68912, 68921>>, <<69734, 69743>>, <<69872, 69881>>,
  <<69942, 69951>>, <<70096, 70105>>, <<70384, 70393>>, <<70736, 70745>>, <<70864, 70873>>,
  <<71248, 71257>>, <<71360, 71369>>, <<71472, 71481>>, <<71904, 71913>>, <<72016, 72025>>,
  <<72784, 72793>>, <<73040, 73049>>, <<73120, 73129>>, <<92768, 92777>>, <<92864, 92873>>,
  <<93008, 93017>>, <<120782, 120831>>, <<123200, 123209>>, <<123632, 123641>>,
  <<125264, 125273>>, <<130032, 130041>> >>
IsDigit(c) == (48 <= c /\ c <= 57) \/ (c > 127 /\ InRanges(c, DigitRanges))
\* the value of a decimal digit: the digits come in runs of ten, from zero up
digit_value(c) ==
  IF c <= 57 THEN c - 48
  ELSE LET first(ranges) == ranges[CHOOSE i \in DOMAIN ranges : ranges[i][1] <= c /\ c <= ranges[i][2]][1]
       IN  (c - first(DigitRanges)) % 10

\* a sequence of digit values without its leading zeros (<<0>> for zero)
int_norm(ds) ==
  LET nz == {i \in DOMAIN ds : ds[i] # 0}
  IN  IF nz = {} THEN <<0>> ELSE SubSeq(ds, SetMin(nz), Len(ds))

\* int(s) of a non-empty run of decimal digits
int_of(s) == int_norm([i \in 1..Len(s) |-> digit_value(s[i])])

RECURSIVE digits_of(_)
\* the Python int of a number of the model
digits_of(n) == IF n < 10 THEN <<n>> ELSE Append(digits_of(n \div 10), n % 10)

\* str(n) of an int n >= 0
str_int(n) == [i \in 1..Len(n) |-> n[i] + 48]

\* a > b and a >= b of two ints >= 0
int_gt(a, b) ==
  \/ Len(a) > Len(b)
  \/ /\ Len(a) = Len(b)
     /\ \E i \in DOMAIN a : a[i] > b[i] /\ \A j \in 1..(i - 1) : a[j] = b[j]
int_ge(a, b) == a = b \/ int_gt(a, b)

\* the longest string of digits int() converts (sys.int_info.default_max_str_digits);
\* int() of a longer one raises ValueError
MaxStrDigits == 4300
int_raises(s) == Len(s) > MaxStrDigits
\* str(e) of that ValueError
int_error(s) ==
  <<69, 120, 99, 101, 101, 100, 115, 32, 116, 104, 101, 32, 108, 105, 109, 105, 116, 32, 40>> \o str_int(digits_of(MaxStrDigits)) \o <<32, 100, 105, 103, 105, 116, 115, 41, 32, 102, 111, 114, 32, 105, 110, 116, 101, 103, 101, 114, 32, 115, 116, 114, 105, 110, 103, 32, 99, 111, 110, 118, 101, 114, 115, 105, 111, 110, 58, 32, 118, 97, 108, 117, 101, 32, 104, 97, 115, 32>>  \* "Exceeds the limit (", " digits) for integer string conversion: value has "
    \o str_int(digits_of(Len(s))) \o <<32, 100, 105, 103, 105, 116, 115, 59, 32, 117, 115, 101, 32, 115, 121, 115, 46, 115, 101, 116, 95, 105, 110, 116, 95, 109, 97, 120, 95, 115, 116, 114, 95, 100, 105, 103, 105, 116, 115, 40, 41, 32, 116, 111, 32, 105, 110, 99, 114, 101, 97, 115, 101, 32, 116, 104, 101, 32, 108, 105, 109, 105, 116>>  \* " digits; use sys.set_int_max_str_digits() to increase the limit"

\* the word characters of the regular expressions' \w
WordRanges == <<
  <<48, 57>>, <<65, 90>>, <<95, 95>>, <<97, 122>>, <<170, 170>>, <<178, 179>>, <<181, 181>>,
  <<185, 186>>, <<188, 190>>, <<192, 214>>, <<216, 246>>, <<248, 705>>, <<710, 721>>,
  <<736, 740>>, <<748, 748>>, <<750, 750>>, <<880, 884>>, <<886, 887>>, <<890, 893>>,
  <<895, 895>>, <<902, 902>>, <<904, 906>>, <<908, 908>>, <<910, 929>>, <<931, 1013>>,
  <<1015, 1153>>, <<1162, 1327>>, <<1329, 1366>>, <<1369, 1369>>, <<1376, 1416>>,
  <<1488, 1514>>, <<1519, 1522>>, <<1568, 1610>>, <<1632, 1641>>, <<1646, 1647>>,
  <<1649, 1747>>, <<1749, 1749>>, <<1765, 1766>>, <<1774, 1788>>, <<1791, 1791>>,
  <<1808, 1808>>, <<1810, 1839>>, <<1869, 1957>>, <<1969, 1969>>, <<1984, 2026>>,
  <<2036, 2037>>, <<2042, 2042>>, <<2048, 2069>>, <<2074, 2074>>, <<2084, 2084>>,
  <<2088, 2088>>, <<2112, 2136>>, <<2144, 2154>>, <<2160, 2183>>, <<2185, 2190>>,
  <<2208, 2249>>, <<2308, 2361>>, <<2365, 2365>>, <<2384, 2384>>, <<2392, 2401>>,
  <<2406, 2415>>, <<2417, 2432>>, <<2437, 2444>>, <<2447, 2448>>, <<2451, 2472>>,
  <<2474, 2480>>, <<2482, 2482>>, <<2486, 2489>>, <<2493, 2493>>, <<2510, 2510>>,
  <<2524, 2525>>, <<2527, 2529>>, <<2534, 2545>>, <<2548, 2553>>, <<2556, 2556>>,
  <<2565, 2570>>, <<2575, 2576>>, <<2579, 2600>>, <<2602, 2608>>, <<2610, 2611>>,
  <<2613, 2614>>, <<2616, 2617>>, <<2649, 2652>>, <<2654, 2654>>, <<2662, 2671>>,
  <<2674, 2676>>, <<2693, 2701>>, <<2703, 2705>>, <<2707, 2728>>, <<2730, 2736>>,
  <<2738, 2739>>, <<2741, 2745>>, <<2749, 2749>>, <<2768, 2768>>, <<2784, 2785>>,
  <<2790, 2799>>, <<2809, 2809>>, <<2821, 2828>>, <<2831, 2832>>, <<2835, 2856>>,
  <<2858, 2864>>, <<2866, 2867>>, <<2869, 2873>>, <<2877, 2877>>, <<2908, 2909>>,
  <<2911, 2913>>, <<2918, 2927>>, <<2929, 2935>>, <<2947, 2947>>, <<2949, 2954>>,
  <<2958, 2960>>, <<2962, 2965>>, <<2969, 2970>>, <<2972, 2972>>, <<2974, 2975>>,
  <<2979, 2980>>, <<2984, 2986>>, <<2990, 3001>>, <<3024, 3024>>, <<3046, 3058>>,
  <<3077, 3084>>, <<3086, 3088>>, <<3090, 3112>>, <<3114, 3129>>, <<3133, 3133>>,
  <<3160, 3162>>, <<3165, 3165>>, <<3168, 3169>>, <<3174, 3183>>, <<3192, 3198>>,
  <<3200, 3200>>, <<3205, 3212>>, <<3214, 3216>>, <<3218, 3240>>, <<3242, 3251>>,
  <<3253, 3257>>, <<3261, 3261>>, <<3293, 3294>>, <<3296, 3297>>, <<3302, 3311>>,
  <<3313, 3314>>, <<3332, 3340>>, <<3342, 3344>>, <<3346, 3386>>, <<3389, 3389>>,
  <<3406, 3406>>, <<3412, 3414>>, <<3416, 3425>>, <<3430, 3448>>, <<3450, 3455>>,
  <<3461, 3478>>, <<3482, 3505>>, <<3507, 3515>>, <<3517, 3517>>, <<3520, 3526>>,
  <<3558, 3567>>, <<3585, 3632>>, <<3634, 3635>>, <<3648, 3654>>, <<3664, 3673>>,
  <<3713, 3714>>, <<3716, 3716>>, <<3718, 3722>>, <<3724, 3747>>, <<3749, 3749>>,
  <<3751, 3760>>, <<3762, 3763>>, <<3773, 3773>>, <<3776, 3780>>, <<3782, 3782>>,
  <<3792, 3801>>, <<3804, 3807>>, <<3840, 3840>>, <<3872, 3891>>, <<3904, 3911>>,
  <<3913, 3948>>, <<3976, 3980>>, <<4096, 4138>>, <<4159, 4169>>, <<4176, 4181>>,
  <<4186, 4189>>, <<4193, 4193>>, <<4197, 4198>>, <<4206, 4208>>, <<4213, 4225>>,
  <<4238, 4238>>, <<4240, 4249>>, <<4256, 4293>>, <<4295, 4295>>, <<4301, 4301>>,
  <<4304, 4346>>, <<4348, 4680>>, <<4682, 4685>>, <<4688, 4694>>, <<4696, 4696>>,
  <<4698, 4701>>, <<4704, 4744>>, <<4746, 4749>>, <<4752, 4784>>, <<4786, 4789>>,
  <<4792, 4798>>, <<4800, 4800>>, <<4802, 4805>>, <<4808, 4822>>, <<4824, 4880>>,
  <<4882, 4885>>, <<4888, 4954>>, <<4969, 4988>>, <<4992, 5007>>, <<5024, 5109>>,
  <<5112, 5117>>, <<5121, 5740>>, <<5743, 5759>>, <<5761, 5786>>, <<5792, 5866>>,
  <<5870, 5880>>, <<5888, 5905>>, <<5919, 5937>>, <<5952, 5969>>, <<5984, 5996>>,
  <<5998, 6000>>, <<6016, 6067>>, <<6103, 6103>>, <<6108, 6108>>, <<6112, 6121>>,
  <<6128, 6137>>, <<6160, 6169>>, <<6176, 6264>>, <<6272, 6276>>, <<6279, 6312>>,
  <<6314, 6314>>, <<6320, 6389>>, <<6400, 6430>>, <<6470, 6509>>, <<6512, 6516>>,
  <<6528, 6571>>, <<6576, 6601>>, <<6608, 6618>>, <<6656, 6678>>, <<6688, 6740>>,
  <<6784, 6793>>, <<6800, 6809>>, <<6823, 6823>>, <<6917, 6963>>, <<6981, 6988>>,
  <<6992, 7001>>, <<7043, 7072>>, <<7086, 7141>>, <<7168, 7203>>, <<7232, 7241>>,
  <<7245, 7293>>, <<7296, 7304>>, <<7312, 7354>>, <<7357, 7359>>, <<7401, 7404>>,
  <<7406, 7411>>, <<7413, 7414>>, <<7418, 7418>>, <<7424, 7615>>, <<7680, 7957>>,
  <<7960, 7965>>, <<7968, 8005>>, <<8008, 8013>>, <<8016, 8023>>, <<8025, 8025>>,
  <<8027, 8027>>, <<8029, 8029>>, <<8031, 8061>>, <<8064, 8116>>, <<8118, 8124>>,
  <<8126, 8126>>, <<8130, 8132>>, <<8134, 8140>>, <<8144, 8147>>, <<8150, 8155>>,
  <<8160, 8172>>, <<8178, 8180>>, <<8182, 8188>>, <<8304, 8305>>, <<8308, 8313>>,
  <<8319, 8329>>, <<8336, 8348>>, <<8450, 8450>>, <<8455, 8455>>, <<8458, 8467>>,
  <<8469, 8469>>, <<8473, 8477>>, <<8484, 8484>>, <<8486, 8486>>, <<8488, 8488>>,
  <<8490, 8493>>, <<8495, 8505>>, <<8508, 8511>>, <<8517, 8521>>, <<8526, 8526>>,
  <<8528, 8585>>, <<9312, 9371>>, <<9450, 9471>>, <<10102, 10131>>, <<11264, 11492>>,
  <<11499, 11502>>, <<11506, 11507>>, <<11517, 11517>>, <<11520, 11557>>, <<11559, 11559>>,
  <<11565, 11565>>, <<11568, 11623>>, <<11631, 11631>>, <<11648, 11670>>, <<11680, 11686>>,
  <<11688, 11694>>, <<11696, 11702>>, <<11704, 11710>>, <<11712, 11718>>, <<11720, 11726>>,
  <<11728, 11734>>, <<11736, 11742>>, <<11823, 11823>>, <<12293, 12295>>, <<12321, 12329>>,
  <<12337, 12341>>, <<12344, 12348>>, <<12353, 12438>>, <<12445, 12447>>, <<12449, 12538>>,
  <<12540, 12543>>, <<12549, 12591>>, <<12593, 12686>>, <<12690, 12693>>, <<12704, 12735>>,
  <<12784, 12799>>, <<12832, 12841>>, <<12872, 12879>>, <<12881, 12895>>, <<12928, 12937>>,
  <<12977, 12991>>, <<13312, 19903>>, <<19968, 42124>>, <<42192, 42237>>, <<42240, 42508>>,
  <<42512, 42539>>, <<42560, 42606>>, <<42623, 42653>>, <<42656, 42735>>, <<42775, 42783>>,
  <<42786, 42888>>, <<42891, 42954>>, <<42960, 42961>>, <<42963, 42963>>, <<42965, 42969>>,
  <<42994, 43009>>, <<43011, 43013>>, <<43015, 43018>>, <<43020, 43042>>, <<43056, 43061>>,
  <<43072, 43123>>, <<43138, 43187>>, <<43216, 43225>>, <<43250, 43255>>, <<43259, 43259>>,
  <<43261, 43262>>, <<43264, 43301>>, <<43312, 43334>>, <<43360, 43388>>, <<43396, 43442>>,
  <<43471, 43481>>, <<43488, 43492>>, <<43494, 43518>>, <<43520, 43560>>, <<43584, 43586>>,
  <<43588, 43595>>, <<43600, 43609>>, <<43616, 43638>>, <<43642, 43642>>, <<43646, 43695>>,
  <<43697, 43697>>, <<43701, 43702>>, <<43705, 43709>>, <<43712, 43712>>, <<43714, 43714>>,
  <<43739, 43741>>, <<43744, 43754>>, <<43762, 43764>>, <<43777, 43782>>, <<43785, 43790>>,
  <<43793, 43798>>, <<43808, 43814>>, <<43816, 43822>>, <<43824, 43866>>, <<43868, 43881>>,
  <<43888, 44002>>, <<44016, 44025>>, <<44032, 55203>>, <<55216, 55238>>, <<55243, 55291>>,
  <<63744, 64109>>, <<64112, 64217>>, <<64256, 64262>>, <<64275, 64279>>, <<64285, 64285>>,
  <<64287, 64296>>, <<64298, 64310>>, <<64312, 64316>>, <<64318, 64318>>, <<64320, 64321>>,
  <<64323, 64324>>, <<64326, 64433>>, <<64467, 64829>>, <<64848, 64911>>, <<64914, 64967>>,
  <<65008, 65019>>, <<65136, 65140>>, <<65142, 65276>>, <<65296, 65305>>, <<65313, 65338>>,
  <<65345, 65370>>, <<65382, 65470>>, <<65474, 65479>>, <<65482, 65487>>, <<65490, 65495>>,
  <<65498, 65500>>, <<65536, 65547>>, <<65549, 65574>>, <<65576, 65594>>, <<65596, 65597>>,
  <<65599, 65613>>, <<65616, 65629>>, <<65664, 65786>>, <<65799, 65843>>, <<65856, 65912>>,
  <<65930, 65931>>, <<66176, 66204>>, <<66208, 66256>>, <<66273, 66299>>, <<66304, 66339>>,
  <<66349, 66378>>, <<66384, 66421>>, <<66432, 66461>>, <<66464, 66499>>, <<66504, 66511>>,
  <<66513, 66517>>, <<66560, 66717>>, <<66720, 66729>>, <<66736, 66771>>, <<66776, 66811>>,
  <<66816, 66855>>, <<66864, 66915>>, <<66928, 66938>>, <<66940, 66954>>, <<66956, 66962>>,
  <<66964, 66965>>, <<66967, 66977>>, <<66979, 66993>>, <<66995, 67001>>, <<67003, 67004>>,
  <<67072, 67382>>, <<67392, 67413>>, <<67424, 67431>>, <<67456, 67461>>, <<67463, 67504>>,
  <<67506, 67514>>, <<67584, 67589>>, <<67592, 67592>>, <<67594, 67637>>, <<67639, 67640>>,
  <<67644, 67644>>, <<67647, 67669>>, <<67672, 67702>>, <<67705, 67742>>, <<67751, 67759>>,
  <<67808, 67826>>, <<67828, 67829>>, <<67835, 67867>>, <<67872, 67897>>, <<67968, 68023>>,
  <<68028, 68047>>, <<68050, 68096>>, <<68112, 68115>>, <<68117, 68119>>, <<68121, 68149>>,
  <<68160, 68168>>, <<68192, 68222>>, <<68224, 68255>>, <<68288, 68295>>, <<68297, 68324>>,
  <<68331, 68335>>, <<68352, 68405>>, <<68416, 68437>>, <<68440, 68466>>, <<68472, 68497>>,
  <<68521, 68527>>, <<68608, 68680>>, <<68736, 68786>>, <<68800, 68850>>, <<68858, 68899>>,
  <<68912, 68921>>, <<69216, 69246>>, <<69248, 69289>>, <<69296, 69297>>, <<69376, 69415>>,
  <<69424, 69445>>, <<69457, 69460>>, <<69488, 69505>>, <<69552, 69579>>, <<69600, 69622>>,
  <<69635, 69687>>, <<69714, 69743>>, <<69745, 69746>>, <<69749, 69749>>, <<69763, 69807>>,
  <<69840, 69864>>, <<69872, 69881>>, <<69891, 69926>>, <<69942, 69951>>, <<69956, 69956>>,
  <<69959, 69959>>, <<69968, 70002>>, <<70006, 70006>>, <<70019, 70066>>, <<70081, 70084>>,
  <<70096, 70106>>, <<70108, 70108>>, <<70113, 70132>>, <<70144, 70161>>, <<70163, 70187>>,
  <<70272, 70278>>, <<70280, 70280>>, <<70282, 70285>>, <<70287, 70301>>, <<70303, 70312>>,
  <<70320, 70366>>, <<70384, 70393>>, <<70405, 70412>>, <<70415, 70416>>, <<70419, 70440>>,
  <<70442, 70448>>, <<70450, 70451>>, <<70453, 70457>>, <<70461, 70461>>, <<70480, 70480>>,
  <<70493, 70497>>, <<70656, 70708>>, <<70727, 70730>>, <<70736, 70745>>, <<70751, 70753>>,
  <<70784, 70831>>, <<70852, 70853>>, <<70855, 70855>>, <<70864, 70873>>, <<71040, 71086>>,
  <<71128, 71131>>, <<71168, 71215>>, <<71236, 71236>>, <<71248, 71257>>, <<71296, 71338>>,
  <<71352, 71352>>, <<71360, 71369>>, <<71424, 71450>>, <<71472, 71483>>, <<71488, 71494>>,
  <<71680, 71723>>, <<71840, 71922>>, <<71935, 71942>>, <<71945, 71945>>, <<71948, 71955>>,
  <<71957, 71958>>, <<71960, 71983>>, <<71999, 71999>>, <<72001, 72001>>, <<72016, 72025>>,
  <<72096, 72103>>, <<72106, 72144>>, <<72161, 72161>>, <<72163, 72163>>, <<72192, 72192>>,
  <<72203, 72242>>, <<72250, 72250>>, <<72272, 72272>>, <<72284, 72329>>, <<72349, 72349>>,
  <<72368, 72440>>, <<72704, 72712>>, <<72714, 72750>>, <<72768, 72768>>, <<72784, 72812>>,
  <<72818, 72847>>, <<72960, 72966>>, <<72968, 72969>>, <<72971, 73008>>, <<73030, 73030>>,
  <<73040, 73049>>, <<73056, 73061>>, <<73063, 73064>>, <<73066, 73097>>, <<73112, 73112>>,
  <<73120, 73129>>, <<73440, 73458>>, <<73648, 73648>>, <<73664, 73684>>, <<73728, 74649>>,
  <<74752, 74862>>, <<74880, 75075>>, <<77712, 77808>>, <<77824, 78894>>, <<82944, 83526>>,
  <<92160, 92728>>, <<92736, 92766>>, <<92768, 92777>>, <<92784, 92862>>, <<92864, 92873>>,
  <<92880, 92909>>, <<92928, 92975>>, <<92992, 92995>>, <<93008, 93017>>, <<93019, 93025>>,
  <<93027, 93047>>, <<93053, 93071>>, <<93760, 93846>>, <<93952, 94026>>, <<94032, 94032>>,
  <<94099, 94111>>, <<94176, 94177>>, <<94179, 94179>>, <<94208, 100343>>, <<100352, 101589>>,
  <<101632, 101640>>, <<110576, 110579>>, <<110581, 110587>>, <<110589, 110590>>,
  <<110592, 110882>>, <<110928, 110930>>, <<110948, 110951>>, <<110960, 111355>>,
  <<113664, 113770>>, <<113776, 113788>>, <<113792, 113800>>, <<113808, 113817>>,
  <<119520, 119539>>, <<119648, 119672>>, <<119808, 119892>>, <<119894, 119964>>,
  <<119966, 119967>>, <<119970, 119970>>, <<119973, 119974>>, <<119977, 119980>>,
  <<119982, 119993>>, <<119995, 119995>>, <<119997, 120003>>, <<120005, 120069>>,
  <<120071, 120074>>, <<120077, 120084>>, <<120086, 120092>>, <<120094, 120121>>,
  <<120123, 120126>>, <<120128, 120132>>, <<120134, 120134>>, <<120138, 120144>>,
  <<120146, 120485>>, <<120488, 120512>>, <<120514, 120538>>, <<120540, 120570>>,
  <<120572, 120596>>, <<120598, 120628>>, <<120630, 120654>>, <<120656, 120686>>,
  <<120688, 120712>>, <<120714, 120744>>, <<120746, 120770>>, <<120772, 120779>>,
  <<120782, 120831>>, <<122624, 122654>>, <<123136, 123180>>, <<123191, 123197>>,
  <<123200, 123209>>, <<123214, 123214>>, <<123536, 123565>>, <<123584, 123627>>,
  <<123632, 123641>>, <<124896, 124902>>, <<124904, 124907>>, <<124909, 124910>>,
  <<124912, 124926>>, <<124928, 125124>>, <<125127, 125135>>, <<125184, 125251>>,
  <<125259, 125259>>, <<125264, 125273>>, <<126065, 126123>>, <<126125, 126127>>,
  <<126129, 126132>>, <<126209, 126253>>, <<126255, 126269>>, <<126464, 126467>>,
  <<126469, 126495>>, <<126497, 126498>>, <<126500, 126500>>, <<126503, 126503>>,
  <<126505, 126514>>, <<126516, 126519>>, <<126521, 126521>>, <<126523, 126523>>,
  <<126530, 126530>>, <<126535, 126535>>, <<126537, 126537>>, <<126539, 126539>>,
  <<126541, 126543>>, <<126545, 126546>>, <<126548, 126548>>, <<126551, 126551>>,
  <<126553, 126553>>, <<126555, 126555>>, <<126557, 126557>>, <<126559, 126559>>,
  <<126561, 126562>>, <<126564, 126564>>, <<126567, 126570>>, <<126572, 126578>>,
  <<126580, 126583>>, <<126585, 126588>>, <<126590, 126590>>, <<126592, 126601>>,
  <<126603, 126619>>, <<126625, 126627>>, <<126629, 126633>>, <<126635, 126651>>,
  <<127232, 127244>>, <<130032, 130041>>, <<131072, 173791>>, <<173824, 177976>>,
  <<177984, 178205>>, <<178208, 183969>>, <<183984, 191456>>, <<194560, 195101>>,
  <<196608, 201546>> >>
IsWord(c) ==
  IF c < 128
  THEN (48 <= c /\ c <= 57) \/ (65 <= c /\ c <= 90) \/ c = 95 \/ (97 <= c /\ c <= 122)
  ELSE InRanges(c, WordRanges)

\* ------------------------------------------------------------------------
\* extract_bad_ap_names
\* ------------------------------------------------------------------------
EmptyMap == [k \in {} |-> <<>>]

\* ifdesc_map[intf] = desc, keeping the earlier entry of a key already there
dict_set_keep_first(m, k, v) == IF k \in DOMAIN m THEN m ELSE [x \in DOMAIN m \cup {k} |-> IF x = k THEN v ELSE m[x]]
\* ifdesc_map[intf] = desc
dict_set(m, k, v) == [x \in DOMAIN m \cup {k} |-> IF x = k THEN v ELSE m[x]]

\* ifdesc_map.get(k, default)
dict_get(m, k, default) == IF k \in DOMAIN m THEN m[k] ELSE default

RECURSIVE build_ifdesc_map(_, _)
\* the loop over ifdesc_text.splitlines(), from the map m on
build_ifdesc_map(lines, m) ==
  IF lines = <<>> THEN m
  ELSE LET parts == split(strip(Head(lines)))
       IN  build_ifdesc_map(Tail(lines),
             IF Len(parts) >= 2 THEN dict_set(m, parts[1], join(<<32>>, Tail(parts))) ELSE m)  \* " "

ifdesc_map_of(ifdesc_text) == build_ifdesc_map(splitlines(ifdesc_text), EmptyMap)

\* re.search(r'Interface: ([^,]+)', line): group 1 of the leftmost match, or None
re_search_interface(line) ==
  LET pat == <<73, 110, 116, 101, 114, 102, 97, 99, 101, 58, 32>>  \* "Interface: "
      at  == {i \in 1..(Len(line) - Len(pat)) :
                SubSeq(line, i, i + Len(pat) - 1) = pat /\ line[i + Len(pat)] # 44}
  IN  IF at = {} THEN None
      ELSE LET b == SetMin(at) + Len(pat)
               e == SetMax({k \in b..Len(line) : \A j \in b..k : line[j] # 44})
           IN  SubSeq(line, b, e)

\* re.match(r"^AP-[\w\d\-]+$", s) matches ($ also matches before a final newline)
re_match_ap_name(s) ==
  LET body_ok(t) == /\ Len(t) >= 4
                    /\ SubSeq(t, 1, 3) = <<65, 80, 45>>  \* "AP-"
                    /\ \A i \in 4..Len(t) : IsWord(t[i]) \/ t[i] = 45
  IN  \/ body_ok(s)
      \/ Len(s) >= 1 /\ s[Len(s)] = 10 /\ body_ok(SubSeq(s, 1, Len(s) - 1))

\* the condition of line 34
is_bad_ap_name(current_ap) == startswith(current_ap, <<65, 80>>) /\ ~re_match_ap_name(current_ap)  \* "AP"

\* the f-string of line 36
format_bad_ap(current_ap, current_port, desc) ==
  current_ap \o <<32, 111, 110, 32>> \o current_port \o <<32, 8212, 32>> \o desc  \* " on ", " \u2014 "

NoDescription == <<40, 110, 111, 32, 100, 101, 115, 99, 114, 105, 112, 116, 105, 111, 110, 41>>  \* "(no description)"

\* the state of the scan: the locals of extract_bad_ap_names and the
\* exception, if one was raised ("" when none)
ScanStart == [current_ap |-> None, current_port |-> None, bad_aps |-> <<>>, raised |-> ""]

\* the three kinds of line the loop of lines 25-38 tells apart (line is stripped)
IsDeviceIdLine(line) == startswith(lower(line), <<100, 101, 118, 105, 99, 101, 32, 105, 100, 58>>)  \* "device id:"
IsInterfaceLine(line) == ~IsDeviceIdLine(line) /\ startswith(lower(line), <<105, 110, 116, 101, 114, 102, 97, 99, 101, 58>>)  \* "interface:"

\* line 28
on_device_id(st, line) ==
  LET pieces == split_sep(line, <<68, 101, 118, 105, 99, 101, 32, 73, 68, 58>>)  \* "Device ID:"
  IN  IF Len(pieces) < 2 THEN [st EXCEPT !.raised = "IndexError"]
      ELSE [st EXCEPT !.current_ap = strip(pieces[2])]

\* lines 30-32
on_interface(st, line) ==
  LET match == re_search_interface(line)
  IN  IF match # None THEN [st EXCEPT !.current_port = match] ELSE st

\* the record of lines 33-38 is evaluated on this line
evaluates(st) == Truthy(st.current_ap) /\ Truthy(st.current_port)

\* lines 33-38
on_other(st, ifdesc_map) ==
  IF evaluates(st)
  THEN [st EXCEPT
          !.bad_aps = IF is_bad_ap_name(st.current_ap)
                      THEN Append(@, format_bad_ap(st.current_ap, st.current_port,
                                     dict_get(ifdesc_map, st.current_port, NoDescription)))
                      ELSE @,
          !.current_ap = None,
          !.current_port = None]
  ELSE st

\* one iteration of the loop of lines 25-38
scan_line(st, rawline, ifdesc_map) ==
  LET line == strip(rawline)
  IN  IF IsDeviceIdLine(line) THEN on_device_id(st, line)
      ELSE IF IsInterfaceLine(line) THEN on_interface(st, line)
      ELSE on_other(st, ifdesc_map)

RECURSIVE scan_lines(_, _, _)
scan_lines(st, lines, ifdesc_map) ==
  IF lines = <<>> \/ st.raised # "" THEN st
  ELSE scan_lines(scan_line(st, Head(lines), ifdesc_map), Tail(lines), ifdesc_map)

\* str(e) of the IndexError of line 28
IndexErrorText == <<108, 105, 115, 116, 32, 105, 110, 100, 101, 120, 32, 111, 117, 116, 32, 111, 102, 32, 114, 97, 110, 103, 101>>  \* "list index out of range"

\* extract_bad_ap_names(cdp_text, ifdesc_text): [raised, message, value]
extract_bad_ap_names(cdp_text, ifdesc_text) ==
  LET result(st) ==
        IF st.raised = "" THEN [raised |-> "", message |-> <<>>, value |-> st.bad_aps]
        ELSE [raised |-> st.raised, message |-> IndexErrorText, value |-> <<>>]
  IN  result(scan_lines(ScanStart, splitlines(cdp_text), ifdesc_map_of(ifdesc_text)))

\* ------------------------------------------------------------------------
\* analyze_all
\* ------------------------------------------------------------------------
\* [x.strip() for x in xs]
strip_each(xs) == [i \in 1..Len(xs) |-> strip(xs[i])]

RECURSIVE FlatSeq(_)
\* the concatenation of a sequence of sequences
FlatSeq(xss) == IF xss = <<>> THEN <<>> ELSE Head(xss) \o FlatSeq(Tail(xss))

ErrHeader == <<9940, 32, 69, 114, 114, 45, 100, 105, 115, 97, 98, 108, 101, 100, 32, 105, 110, 116, 101, 114, 102, 97, 99, 101, 115, 32, 100, 101, 116, 101, 99, 116, 101, 100, 58>>  \* "\u26d4 Err-disabled interfaces detected:"
PowerPrefix == <<128268, 32, 80, 111, 119, 101, 114, 32, 115, 117, 112, 112, 108, 121, 32, 105, 115, 115, 117, 101, 58, 32>>  \* "\U0001f50c Power supply issue: "
DhcpHeader == <<128737, 65039, 32, 68, 72, 67, 80, 32, 83, 110, 111, 111, 112, 105, 110, 103, 32, 109, 101, 115, 115, 97, 103, 101, 115, 32, 40, 116, 104, 105, 115, 32, 109, 111, 110, 116, 104, 41, 58>>  \* "\U0001f6e1\ufe0f DHCP Snooping messages (this month):"
ApHeader == <<128225, 32, 73, 109, 112, 114, 111, 112, 101, 114, 108, 121, 32, 110, 97, 109, 101, 100, 32, 65, 99, 99, 101, 115, 115, 32, 80, 111, 105, 110, 116, 115, 32, 100, 101, 116, 101, 99, 116, 101, 100, 58>>  \* "\U0001f4e1 Improperly named Access Points detected:"
NoIssues == <<9989, 32, 78, 111, 32, 99, 114, 105, 116, 105, 99, 97, 108, 32, 105, 115, 115, 117, 101, 115, 32, 100, 101, 116, 101, 99, 116, 101, 100, 46>>  \* "\u2705 No critical issues detected."
CpuPrefix == <<9881, 65039, 32, 83, 117, 115, 116, 97, 105, 110, 101, 100, 32, 104, 105, 103, 104, 32, 67, 80, 85, 32, 108, 111, 97, 100, 58, 32>>  \* "\u2699\ufe0f Sustained high CPU load: "
TempPrefix == <<127777, 65039, 32, 72, 105, 103, 104, 32, 105, 110, 108, 101, 116, 32, 116, 101, 109, 112, 101, 114, 97, 116, 117, 114, 101, 58, 32>>  \* "\U0001f321\ufe0f High inlet temperature: "
SubItemPrefix == <<38, 110, 98, 115, 112, 59, 38, 110, 98, 115, 112, 59, 45, 32>>  \* "&nbsp;&nbsp;- "
\* the f-string "&nbsp;&nbsp;- {x}" of lines 51, 66 and 92
sub_item(x) == SubItemPrefix \o x
\* [f"&nbsp;&nbsp;- {x}" for x in xs]
sub_items(xs) == [i \in 1..Len(xs) |-> sub_item(xs[i])]

PowerKeywords == <<<<110, 111, 116, 32, 112, 114, 101, 115, 101, 110, 116>>, <<102, 97, 105, 108>>, <<111, 102, 102>>, <<98, 97, 100>>, <<115, 104, 117, 116, 100, 111, 119, 110>>>>  \* "not present", "fail", "off", "bad", "shutdown"

\* line 48: the stripped lines that hold the marker
err_interfaces(err_text) ==
  LET hit(line) == contains(lower(line), <<101, 114, 114, 45, 100, 105, 115, 97, 98, 108, 101, 100>>)  \* "err-disabled"
  IN  strip_each(SelectSeq(splitlines(err_text), hit))

\* lines 47-51
err_issues(err_text) ==
  IF contains(lower(err_text), <<101, 114, 114, 45, 100, 105, 115, 97, 98, 108, 101, 100>>) /\ err_interfaces(err_text) # <<>>  \* "err-disabled"
  THEN <<ErrHeader>> \o sub_items(err_interfaces(err_text))
  ELSE <<>>

\* line 55
is_power_problem(line) == \E k \in DOMAIN PowerKeywords : contains(lower(line), PowerKeywords[k])

\* lines 54-56
power_issues(power_text) ==
  LET hits == SelectSeq(splitlines(power_text), is_power_problem)
  IN  [i \in 1..Len(hits) |-> PowerPrefix \o strip(hits[i])]

\* lines 60-63, current_month being datetime.now().strftime("%b")
dhcp_messages(dhcp_log_text, current_month) ==
  LET hit(line) == contains(lower(line), <<100, 104, 99, 112, 95, 115, 110, 111, 111, 112, 105, 110, 103>>) /\ startswith(strip(line), current_month)  \* "dhcp_snooping"
  IN  strip_each(SelectSeq(splitlines(dhcp_log_text), hit))

\* lines 64-66
dhcp_issues(dhcp_log_text, current_month) ==
  IF dhcp_messages(dhcp_log_text, current_month) # <<>>
  THEN <<DhcpHeader>> \o sub_items(dhcp_messages(dhcp_log_text, current_month))
  ELSE <<>>

\* re.search(r'five minutes: (\d+)%', cpu_text): group 1 of the leftmost match, or None
re_search_cpu(cpu_text) ==
  LET pat == <<102, 105, 118, 101, 32, 109, 105, 110, 117, 116, 101, 115, 58, 32>>  \* "five minutes: "
      n   == Len(cpu_text)
      \* the last position of the run of digits that starts at b (b - 1: no digit at b)
      run(b) == SetMin({k \in b..(n + 1) : k = n + 1 \/ ~IsDigit(cpu_text[k])}) - 1
      ok(i) == /\ SubSeq(cpu_text, i, i + Len(pat) - 1) = pat
               /\ run(i + Len(pat)) >= i + Len(pat)
               /\ run(i + Len(pat)) < n
               /\ cpu_text[run(i + Len(pat)) + 1] = 37
      at  == {i \in 1..(n - Len(pat)) : ok(i)}
  IN  IF at = {} THEN None
      ELSE SubSeq(cpu_text, SetMin(at) + Len(pat), run(SetMin(at) + Len(pat)))

CpuThreshold == 60
\* line 72
cpu_is_high(cpu_5min) == int_gt(cpu_5min, digits_of(CpuThreshold))

\* the f-string of line 73
format_cpu(cpu_5min) == CpuPrefix \o str_int(cpu_5min) \o <<37, 32, 40, 53, 32, 109, 105, 110, 32, 97, 118, 103, 41>>  \* "% (5 min avg)"

\* lines 69-73: [raised, message, value]; int() of line 71 raises ValueError
\* on a number of more than MaxStrDigits digits
cpu_issues(cpu_text) ==
  LET found(cpu_5min) == IF cpu_is_high(cpu_5min) THEN <<format_cpu(cpu_5min)>> ELSE <<>>
      result(match) ==
        IF match = None THEN [raised |-> "", message |-> <<>>, value |-> <<>>]
        ELSE IF int_raises(match)
        THEN [raised |-> "ValueError", message |-> int_error(match), value |-> <<>>]
        ELSE [raised |-> "", message |-> <<>>, value |-> found(int_of(match))]
  IN  result(re_search_cpu(cpu_text))

\* ------------------------------------------------------------------------
\* Naturals of any size, as sequences of limbs (least significant first, the
\* last limb not zero; <<>> is zero)
\* ------------------------------------------------------------------------
LimbBits == 15
Limb == 32768

big_trim(a) ==
  LET nz == {i \in DOMAIN a : a[i] # 0}
  IN  IF nz = {} THEN <<>> ELSE SubSeq(a, 1, SetMax(nz))

\* the limb at position j, zero outside the number
big_limb(a, j) == IF j >= 1 /\ j <= Len(a) THEN a[j] ELSE 0

\* the number of bits of a
big_bitlen(a) ==
  IF a = <<>> THEN 0
  ELSE (LimbBits * (Len(a) - 1)) + (CHOOSE k \in 1..LimbBits : 2^(k - 1) <= a[Len(a)] /\ a[Len(a)] < 2^k)

\* bit i of a, bit 0 the least significant
big_bit(a, i) == (big_limb(a, (i \div LimbBits) + 1) \div 2^(i % LimbBits)) % 2

\* a bit of a below bit t is set
big_low_nonzero(a, t) ==
  \E j \in DOMAIN a :
    /\ (j - 1) * LimbBits < t
    /\ IF j * LimbBits <= t THEN a[j] # 0 ELSE a[j] % 2^(t - ((j - 1) * LimbBits)) # 0

\* a \div 2^t
big_shr(a, t) ==
  LET d == t \div LimbBits
      b == t % LimbBits
  IN  big_trim([j \in 1..(IF Len(a) > d THEN Len(a) - d ELSE 0) |->
                  (big_limb(a, j + d) \div 2^b) + ((big_limb(a, j + d + 1) % 2^b) * 2^(LimbBits - b))])

\* a * 2^t
big_shl(a, t) ==
  LET d == t \div LimbBits
      b == t % LimbBits
  IN  big_trim([j \in 1..(Len(a) + d + 1) |->
                  IF j <= d THEN 0
                  ELSE ((big_limb(a, j - d) * 2^b) % Limb) + (big_limb(a, j - d - 1) \div 2^(LimbBits - b))])

RECURSIVE big_mul_range(_, _, _, _, _)
\* the limbs lo..hi of a * m + c, for the carry c into limb lo, and the carry
\* out of limb hi
big_mul_range(a, m, lo, hi, c) ==
  IF lo = hi
  THEN [limbs |-> <<((a[lo] * m) + c) % Limb>>, carry |-> ((a[lo] * m) + c) \div Limb]
  ELSE LET mid  == (lo + hi) \div 2
           low  == big_mul_range(a, m, lo, mid, c)
           high == big_mul_range(a, m, mid + 1, hi, low.carry)
       IN  [limbs |-> low.limbs \o high.limbs, carry |-> high.carry]

\* a * m + c, for 0 < m < Limb and 0 <= c < Limb
big_mul_add(a, m, c) ==
  LET product(r) == IF r.carry = 0 THEN r.limbs ELSE Append(r.limbs, r.carry)
  IN  IF a = <<>> THEN (IF c = 0 THEN <<>> ELSE <<c>>)
      ELSE product(big_mul_range(a, m, 1, Len(a), c))

RECURSIVE big_mul_times(_, _, _)
\* a * m^times
big_mul_times(a, m, times) ==
  IF times = 0 \/ a = <<>> THEN a ELSE big_mul_times(big_mul_add(a, m, 0), m, times - 1)

RECURSIVE big_add_range(_, _, _, _, _)
\* the limbs lo..hi of a + b + c, for the carry c into limb lo, and the carry
\* out of limb hi
big_add_range(a, b, lo, hi, c) ==
  IF lo = hi
  THEN [limbs |-> <<(big_limb(a, lo) + big_limb(b, lo) + c) % Limb>>,
        carry |-> (big_limb(a, lo) + big_limb(b, lo) + c) \div Limb]
  ELSE LET mid  == (lo + hi) \div 2
           low  == big_add_range(a, b, lo, mid, c)
           high == big_add_range(a, b, mid + 1, hi, low.carry)
       IN  [limbs |-> low.limbs \o high.limbs, carry |-> high.carry]

\* a + b + c, for a carry c of 0 or 1
big_add(a, b, c) ==
  LET sum(r) == IF r.carry = 0 THEN r.limbs ELSE Append(r.limbs, r.carry)
  IN  IF a = <<>> /\ b = <<>> THEN (IF c = 0 THEN <<>> ELSE <<c>>)
      ELSE sum(big_add_range(a, b, 1, IF Len(a) > Len(b) THEN Len(a) ELSE Len(b), c))

RECURSIVE big_sub_range(_, _, _, _, _)
\* the limbs lo..hi of a - b - c, for the borrow c from limb lo, and the
\* borrow from limb hi + 1
big_sub_range(a, b, lo, hi, c) ==
  IF lo = hi
  THEN [limbs |-> <<(Limb + big_limb(a, lo) - big_limb(b, lo) - c) % Limb>>,
        borrow |-> IF big_limb(a, lo) - big_limb(b, lo) - c < 0 THEN 1 ELSE 0]
  ELSE LET mid  == (lo + hi) \div 2
           low  == big_sub_range(a, b, lo, mid, c)
           high == big_sub_range(a, b, mid + 1, hi, low.borrow)
       IN  [limbs |-> low.limbs \o high.limbs, borrow |-> high.borrow]

\* a - b, for a >= b
big_sub(a, b) == IF a = <<>> THEN <<>> ELSE big_trim(big_sub_range(a, b, 1, Len(a), 0).limbs)

RECURSIVE big_div_range(_, _, _, _, _)
\* the limbs hi..lo (the most significant first) of the quotient of a by m,
\* for the remainder rem that comes down from limb hi + 1, and the remainder
\* that goes down from limb lo
big_div_range(a, m, lo, hi, rem) ==
  IF lo = hi
  THEN [limbs |-> <<((rem * Limb) + a[lo]) \div m>>, rem |-> ((rem * Limb) + a[lo]) % m]
  ELSE LET mid  == (lo + hi) \div 2
           high == big_div_range(a, m, mid + 1, hi, rem)
           low  == big_div_range(a, m, lo, mid, high.rem)
       IN  [limbs |-> high.limbs \o low.limbs, rem |-> low.rem]

\* a \div m and a % m, for 0 < m < Limb
big_divmod(a, m) ==
  LET result(d) == [q |-> big_trim([i \in 1..Len(a) |-> d.limbs[Len(a) + 1 - i]]), r |-> d.rem]
  IN  IF a = <<>> THEN [q |-> <<>>, r |-> 0]
      ELSE result(big_div_range(a, m, 1, Len(a), 0))

RECURSIVE big_div_times(_, _, _, _)
\* a \div m^times, and whether a division left a remainder (or inexact held before)
big_div_times(a, m, times, inexact) ==
  LET next(d) == big_div_times(d.q, m, times - 1, inexact \/ d.r # 0)
  IN  IF times = 0 \/ a = <<>> THEN [q |-> a, inexact |-> inexact]
      ELSE next(big_divmod(a, m))

\* a > b
big_gt(a, b) ==
  \/ Len(a) > Len(b)
  \/ /\ Len(a) = Len(b)
     /\ \E i \in DOMAIN a : a[i] > b[i] /\ \A j \in (i + 1)..Len(a) : a[j] = b[j]

\* the number the four decimal digits of ds that end at position i spell
four_digits(ds, i) == (1000 * ds[i - 3]) + (100 * ds[i - 2]) + (10 * ds[i - 1]) + ds[i]

RECURSIVE big_of_digits(_, _)
\* the number the first i of the decimal digits ds spell
big_of_digits(ds, i) ==
  IF i = 0 THEN <<>>
  ELSE IF i >= 16
  THEN big_mul_add(big_mul_add(big_mul_add(big_mul_add(big_of_digits(ds, i - 16),
         10000, four_digits(ds, i - 12)), 10000, four_digits(ds, i - 8)),
         10000, four_digits(ds, i - 4)), 10000, four_digits(ds, i))
  ELSE IF i >= 4 THEN big_mul_add(big_of_digits(ds, i - 4), 10000, four_digits(ds, i))
  ELSE big_mul_add(big_of_digits(ds, i - 1), 10, ds[i])

\* the four decimal digits of a number below 10000
digits_four(r) == <<r \div 1000, (r \div 100) % 10, (r \div 10) % 10, r % 10>>

RECURSIVE big_digits_padded(_)
\* the decimal digits of a, after zeros that make their number a multiple of four
big_digits_padded(a) ==
  LET by4(d1, d2, d3, d4) ==
        big_digits_padded(d4.q) \o digits_four(d4.r) \o digits_four(d3.r)
          \o digits_four(d2.r) \o digits_four(d1.r)
      by3(d1, d2, d3) == by4(d1, d2, d3, big_divmod(d3.q, 10000))
      by2(d1, d2) == by3(d1, d2, big_divmod(d2.q, 10000))
      by1(d1) == by2(d1, big_divmod(d1.q, 10000))
  IN  IF a = <<>> THEN <<>> ELSE by1(big_divmod(a, 10000))

\* the decimal digits of a
big_digits(a) == int_norm(big_digits_padded(a))

\* the largest step that multiplying or dividing by 5^k takes at once
pow5_step(k) == IF k >= 36 THEN 36 ELSE IF k >= 6 THEN 6 ELSE 1

RECURSIVE big_mul_pow5(_, _)
\* a * 5^k (15625 is 5^6)
big_mul_pow5(a, k) ==
  IF k = 0 \/ a = <<>> THEN a
  ELSE big_mul_pow5(big_mul_times(a, IF k >= 6 THEN 15625 ELSE 5, IF k >= 36 THEN 6 ELSE 1),
                    k - pow5_step(k))

RECURSIVE big_div_pow5(_, _, _)
\* a \div 5^k, and whether a division left a remainder (or inexact held before)
big_div_pow5(a, k, inexact) ==
  LET next(d) == big_div_pow5(d.q, k - pow5_step(k), d.inexact)
  IN  IF k = 0 \/ a = <<>> THEN [q |-> a, inexact |-> inexact]
      ELSE next(big_div_times(a, IF k >= 6 THEN 15625 ELSE 5, IF k >= 36 THEN 6 ELSE 1, inexact))

\* ------------------------------------------------------------------------
\* Python floats: IEEE 754 doubles, rounded to nearest, ties to even.  A
\* float is a record: kind "nan", "inf" or "finite", the sign in neg, and for
\* a finite one the number m * 2^q, where m has 53 bits and q is -1074 .. 971,
\* or m has fewer bits and q is -1074 (a subnormal), or m is zero and q is 0.
\* ------------------------------------------------------------------------
MinExp == 0 - 1074
MaxExp == 971
Nan == [kind |-> "nan", neg |-> FALSE, m |-> <<>>, q |-> 0]
Inf(neg) == [kind |-> "inf", neg |-> neg, m |-> <<>>, q |-> 0]
Zero(neg) == [kind |-> "finite", neg |-> neg, m |-> <<>>, q |-> 0]

\* the double nearest to n * 2^e (plus a fraction of 2^e, when inexact: n
\* then has 55 bits or more, or 2^e is below 2^MinExp / 4), with the sign neg
round_double(neg, n, e, inexact) ==
  LET pack(m, q) ==
        IF m = <<>> THEN Zero(neg)
        ELSE IF q > MaxExp THEN Inf(neg)
        ELSE [kind |-> "finite", neg |-> neg, m |-> m, q |-> q]
      \* m1 is n \div 2^t rounded; rounding up may have made it 2^53
      carried(m1, t) == IF big_bitlen(m1) = 54 THEN pack(big_shr(m1, 1), e + t + 1) ELSE pack(m1, e + t)
      up(m0, t) == /\ big_bit(n, t - 1) = 1
                   /\ (inexact \/ big_low_nonzero(n, t - 1) \/ big_bit(m0, 0) = 1)
      rounded(m0, t) == carried(IF up(m0, t) THEN big_add(m0, <<>>, 1) ELSE m0, t)
      \* t bits of n are dropped (t <= 0: none is)
      dropping(t) == IF t <= 0 THEN pack(big_shl(n, 0 - t), e + t) ELSE rounded(big_shr(n, t), t)
      of_length(bits) == dropping(IF bits - 53 > MinExp - e THEN bits - 53 ELSE MinExp - e)
  IN  of_length(big_bitlen(n))

\* the double nearest to ds * 10^k, for decimal digits ds that spell a number > 0
double_of_decimal(neg, ds, k) ==
  LET d == 0 - k
      \* 5^d has at most (7 * d) \div 3 + 1 bits: the shift leaves a quotient of 55 bits or more
      shift(bits) == IF 57 + ((7 * d) \div 3) > bits THEN 57 + ((7 * d) \div 3) - bits ELSE 0
      quotient(quot, s) == [n |-> quot.q, e |-> 0 - (s + d), inexact |-> quot.inexact]
      divided(n, s) == quotient(big_div_pow5(big_shl(n, s), d, FALSE), s)
      scaled(n) == IF k >= 0 THEN [n |-> big_mul_pow5(n, k), e |-> k, inexact |-> FALSE]
                   ELSE divided(n, shift(big_bitlen(n)))
      rounded(v) == round_double(neg, v.n, v.e, v.inexact)
  IN  rounded(scaled(big_of_digits(ds, Len(ds))))

\* x * 9
float_mul9(x) ==
  IF x.kind # "finite" THEN x ELSE round_double(x.neg, big_mul_add(x.m, 9, 0), x.q, FALSE)

\* x / 5
float_div5(x) ==
  LET rounded(d) == round_double(x.neg, d.q, x.q - 6, d.r # 0)
  IN  IF x.kind # "finite" THEN x ELSE rounded(big_divmod(big_shl(x.m, 6), 5))

\* x + 32
float_add32(x) ==
  LET e == IF x.q < 5 THEN x.q ELSE 5
      sum(a, b) == IF ~x.neg THEN [neg |-> FALSE, n |-> big_add(a, b, 0)]
                   ELSE IF a = b THEN [neg |-> FALSE, n |-> <<>>]
                   ELSE IF big_gt(a, b) THEN [neg |-> TRUE, n |-> big_sub(a, b)]
                   ELSE [neg |-> FALSE, n |-> big_sub(b, a)]
      rounded(v) == round_double(v.neg, v.n, e, FALSE)
  IN  IF x.kind # "finite" THEN x
      ELSE rounded(sum(big_shl(x.m, x.q - e), big_shl(<<1>>, 5 - e)))

\* x > 100 of line 83 (100 is 25 * 2^2)
float_gt100(x) ==
  /\ x.kind # "nan" /\ ~x.neg
  /\ \/ x.kind = "inf"
     \/ big_gt(big_shl(x.m, IF x.q >= 2 THEN x.q - 2 ELSE 0), big_shl(<<25>>, IF x.q >= 2 THEN 0 ELSE 2 - x.q))

\* f"{x:.1f}": the exact value rounded to one decimal, ties to even
format_1f(x) ==
  LET \* p \div 2^t, rounded
      up(p, t, r0) == /\ big_bit(p, t - 1) = 1
                      /\ (big_low_nonzero(p, t - 1) \/ big_bit(r0, 0) = 1)
      rounded(p, t, r0) == IF up(p, t, r0) THEN big_add(r0, <<>>, 1) ELSE r0
      tenths(p, t) == IF t <= 0 THEN big_shl(p, 0 - t) ELSE rounded(p, t, big_shr(p, t))
      \* ds are the digits of the tenths
      text(ds) == (IF x.neg THEN <<45>> ELSE <<>>)  \* "-"
                    \o (IF Len(ds) = 1 THEN <<48>> ELSE str_int(SubSeq(ds, 1, Len(ds) - 1)))  \* "0"
                    \o <<46>> \o str_int(SubSeq(ds, Len(ds), Len(ds)))  \* "."
  IN  IF x.kind = "nan" THEN <<110, 97, 110>>  \* "nan"
      ELSE IF x.kind = "inf" THEN (IF x.neg THEN <<45, 105, 110, 102>> ELSE <<105, 110, 102>>)  \* "-inf", "inf"
      ELSE text(big_digits(tenths(big_mul_add(x.m, 10, 0), 0 - x.q)))

\* ------------------------------------------------------------------------
\* float(part) of line 81
\* ------------------------------------------------------------------------
IsAsciiDigit(c) == 48 <= c /\ c <= 57
\* the white space float() strips from the text it parses
IsAsciiSpace(c) == (9 <= c /\ c <= 13) \/ c = 32

\* the ASCII text float() parses: a decimal digit of any script becomes its
\* ASCII digit, white space outside ASCII a space, and any other character
\* outside ASCII a question mark
float_ascii(part) ==
  [i \in 1..Len(part) |->
     IF part[i] < 127 THEN part[i]
     ELSE IF IsSpace(part[i]) THEN 32
     ELSE IF IsDigit(part[i]) THEN 48 + digit_value(part[i])
     ELSE 63]

\* the text without the white space at its ends
float_strip(t) ==
  LET keep == {i \in 1..Len(t) : ~IsAsciiSpace(t[i])}
  IN  IF keep = {} THEN <<>> ELSE SubSeq(t, SetMin(keep), SetMax(keep))

\* every underscore of the text stands between two digits
underscores_ok(t) ==
  \A i \in DOMAIN t :
    t[i] = 95 => (i > 1 /\ i < Len(t) /\ IsAsciiDigit(t[i - 1]) /\ IsAsciiDigit(t[i + 1]))

\* the text without its underscores
without_underscores(t) ==
  LET keep == {i \in DOMAIN t : t[i] # 95}
  IN  IF keep = DOMAIN t THEN t ELSE [k \in 1..Cardinality(keep) |-> t[Nth(keep, k)]]

\* the ASCII letters of the text in lower case
ascii_lower(t) == [i \in 1..Len(t) |-> IF 65 <= t[i] /\ t[i] <= 90 THEN t[i] + 32 ELSE t[i]]

AllDigits(t) == \A i \in DOMAIN t : IsAsciiDigit(t[i])

\* the parts of the text of a number: sign, digits before and after the
\* point, and the exponent with its sign; ok tells whether the text is one
float_fields(part) ==
  LET \* clean: the underscores stand where they may
      number(neg, word, mant, has_e, etext, clean) ==
        LET esign == Len(etext) >= 1 /\ etext[1] \in {43, 45}
            edigs == IF esign THEN Tail(etext) ELSE etext
            dots  == {i \in DOMAIN mant : mant[i] = 46}
            dot   == IF dots = {} THEN Len(mant) + 1 ELSE SetMin(dots)
            whole == SubSeq(mant, 1, dot - 1)
            frac  == SubSeq(mant, dot + 1, Len(mant))
            named == word \in {<<105, 110, 102>>, <<105, 110, 102, 105, 110, 105, 116, 121>>, <<110, 97, 110>>}  \* "inf", "infinity", "nan"
        IN  [neg   |-> neg,
             word  |-> IF clean /\ named THEN word ELSE <<>>,
             whole |-> whole, frac |-> frac,
             eneg  |-> esign /\ etext[1] = 45, edigs |-> edigs,
             ok    |-> /\ clean
                       /\ \/ named
                          \/ /\ AllDigits(whole) /\ AllDigits(frac) /\ Len(whole) + Len(frac) >= 1
                             /\ (~has_e \/ (AllDigits(edigs) /\ Len(edigs) >= 1))]
      at_e(neg, body, epos, clean) ==
        number(neg, ascii_lower(body), SubSeq(body, 1, epos - 1), epos <= Len(body),
               SubSeq(body, epos + 1, Len(body)), clean)
      unsigned(neg, body, clean) ==
        at_e(neg, body, SetMin({i \in 1..(Len(body) + 1) : i = Len(body) + 1 \/ body[i] \in {101, 69}}), clean)
      signed(u, sign, clean) == unsigned(sign /\ u[1] = 45, IF sign THEN Tail(u) ELSE u, clean)
      plain(u, clean) == signed(u, Len(u) >= 1 /\ u[1] \in {43, 45}, clean)
      stripped(t) == plain(without_underscores(t), underscores_ok(t))
  IN  stripped(float_strip(float_ascii(part)))

\* float(part) succeeds; FALSE where it raises ValueError
is_float(part) == float_fields(part).ok

RECURSIVE small_int(_)
\* the number a short sequence of digit values spells
small_int(ds) == IF ds = <<>> THEN 0 ELSE (10 * small_int(SubSeq(ds, 1, Len(ds) - 1))) + ds[Len(ds)]

\* the float of the parts f of a text that is one
float_value(f) ==
  LET all   == [i \in 1..(Len(f.whole) + Len(f.frac)) |->
                  IF i <= Len(f.whole) THEN f.whole[i] - 48 ELSE f.frac[i - Len(f.whole)] - 48]
      \* ex is the exponent written; an exponent of ten digits or more
      \* outweighs every text there is
      number(nz, ex) ==
        LET \* the digits from the first to the last that is not zero spell the
            \* number ds * 10^k
            last == SetMax(nz)
            ds   == SubSeq(all, SetMin(nz), last)
            k    == (IF f.eneg THEN 0 - small_int(ex) ELSE small_int(ex)) + (Len(all) - last) - Len(f.frac)
            \* the number lies in [10^(mag - 1), 10^mag)
            mag  == Len(ds) + k
        IN  IF Len(ex) > 9 THEN (IF f.eneg THEN Zero(f.neg) ELSE Inf(f.neg))
            \* below 10^-324 lies less than half the smallest double, and the largest
            \* double lies below 10^309
            ELSE IF mag <= 0 - 324 THEN Zero(f.neg)
            ELSE IF mag >= 310 THEN Inf(f.neg)
            ELSE double_of_decimal(f.neg, ds, k)
      digits(nz) == IF nz = {} THEN Zero(f.neg)
                    ELSE number(nz, int_norm([i \in 1..Len(f.edigs) |-> f.edigs[i] - 48]))
  IN  IF f.word = <<110, 97, 110>> THEN Nan  \* "nan"
      ELSE IF f.word # <<>> THEN Inf(f.neg)
      ELSE digits({i \in DOMAIN all : all[i] # 0})

\* float(part), where is_float(part)
float_of(part) == float_value(float_fields(part))

\* temp_f = (temp_c * 9/5) + 32 of line 82
temp_f_of(temp_c) == float_add32(float_div5(float_mul9(temp_c)))

\* the f-string of line 84
format_temp(temp_f, temp_c, line) ==
  TempPrefix \o format_1f(temp_f) \o <<176, 70, 32, 40>> \o format_1f(temp_c)  \* "\xb0F ("
    \o <<176, 67, 41, 32, 111, 110, 32, 108, 105, 110, 101, 58, 32>> \o strip(line)  \* "\xb0C) on line: "

\* lines 78-86 for one line that holds "inlet"
temp_line_issues(line) ==
  LET \* line 83
      at(temp_f, temp_c) == IF float_gt100(temp_f) THEN <<format_temp(temp_f, temp_c, line)>> ELSE <<>>
      found(temp_c) == at(temp_f_of(temp_c), temp_c)
      \* lines 80-86 for one part
      of(part) == IF is_float(part) THEN found(float_of(part)) ELSE <<>>
      each(parts) == FlatSeq([i \in 1..Len(parts) |-> of(parts[i])])
  IN  each(split(strip(line)))

\* lines 76-86
temp_issues(temp_text) ==
  LET inlet(line) == contains(lower(line), <<105, 110, 108, 101, 116>>)  \* "inlet"
      inlets == SelectSeq(splitlines(temp_text), inlet)
  IN  FlatSeq([i \in 1..Len(inlets) |-> temp_line_issues(inlets[i])])

\* lines 90-92
ap_issues(bad_aps) == IF bad_aps # <<>> THEN <<ApHeader>> \o sub_items(bad_aps) ELSE <<>>

\* the categories appended with temperature before CPU
append_in_order_swapped(err, power, dhcp, cpu, temp, ap) == err \o power \o dhcp \o temp \o cpu \o ap
\* the order in which lines 46-92 append to issues
append_in_order(err, power, dhcp, cpu, temp, ap) == err \o power \o dhcp \o cpu \o temp \o ap

\* the fallback appended whatever issues holds
with_fallback_always(issues) == Append(issues, NoIssues)
\* lines 94-95
with_fallback(issues) == IF issues = <<>> THEN <<NoIssues>> ELSE issues

\* analyze_all(...): [raised, message, value]; current_month is the ambient
\* month of line 59.  Line 71 raises before line 89 is reached.
analyze_all(err_text, power_text, dhcp_log_text, cpu_text, temp_text, cdp_text, ifdesc_text, current_month) ==
  LET result(cpu, bad) ==
        IF cpu.raised # "" THEN [raised |-> cpu.raised, message |-> cpu.message, value |-> <<>>]
        ELSE IF bad.raised # "" THEN [raised |-> bad.raised, message |-> bad.message, value |-> <<>>]
        ELSE [raised |-> "", message |-> <<>>,
              value |-> with_fallback(append_in_order(err_issues(err_text), power_issues(power_text),
                          dhcp_issues(dhcp_log_text, current_month), cpu.value,
                          temp_issues(temp_text), ap_issues(bad.value)))]
  IN  result(cpu_issues(cpu_text), extract_bad_ap_names(cdp_text, ifdesc_text))

\* ------------------------------------------------------------------------
\* State
\* ------------------------------------------------------------------------
VARIABLES
  \* extract_bad_ap_names, one loop iteration at a time
  cdp_text, ifdesc_text,      \* the arguments
  ifdesc_map,                 \* line 12, filled by lines 15-20
  cdp_lines,                  \* cdp_text.splitlines() of line 25
  line_no,                    \* the number of the line the loop of line 25 is at
  current_ap, current_port,   \* lines 22-23
  bad_aps,                    \* line 11
  scan_pc,                    \* "idle", "start", "scan", "returned" or "raised"
  ap_line, port_line,         \* history: the line that set current_ap / current_port (0: none)
  evals,                      \* history: the records evaluated by lines 33-38
  \* analyze_all, applied to its arguments
  err_text, power_text, dhcp_log_text, cpu_text, temp_text,
  current_month,              \* datetime.now().strftime("%b") of line 59
  cpu_parts,                  \* the pieces cpu_text was put together from
  issues,                     \* the list analyze_all returned
  an_pc,                      \* "idle", "call", "returned" or "raised"
  \* the per-device loop of lines 107-145
  switch_ips,                 \* line 104
  ip_i,                       \* the position of ip in switch_ips
  loop_pc,                    \* where the loop body is
  outputs,                    \* the command outputs fetched so far for this device
  hostname,                   \* line 128
  exc,                        \* str(e) of the exception being handled
  all_results,                \* line 107
  analyze_calls,              \* history: the positions analyze_all was called for
  fetch_failed                \* history: the positions whose session or fetch failed

scanVars == <<cdp_text, ifdesc_text, ifdesc_map, cdp_lines, line_no, current_ap, current_port, bad_aps, scan_pc, ap_line, port_line, evals>>
anVars == <<err_text, power_text, dhcp_log_text, cpu_text, temp_text, current_month, cpu_parts, issues, an_pc>>
loopVars == <<switch_ips, ip_i, loop_pc, outputs, hostname, exc, all_results, analyze_calls, fetch_failed>>
vars == <<scanVars, anVars, loopVars>>

\* all sequences over S of length at most n
SeqsUpTo(S, n) == UNION {[1..k -> S] : k \in 0..n}

\* the lines joined into one text, each followed by a newline but the last
Text(lines) == join(<<10>>, lines)  \* "\n"

\* ------------------------------------------------------------------------
\* The inputs explored
\* ------------------------------------------------------------------------
LineBadAp == <<68, 101, 118, 105, 99, 101, 32, 73, 68, 58, 32, 65, 80, 70, 50>>  \* "Device ID: APF2"
LineGoodAp == <<68, 101, 118, 105, 99, 101, 32, 73, 68, 58, 32, 65, 80, 45, 201, 49>>  \* "Device ID: AP-\xc91"
LineLowerDeviceId == <<100, 101, 118, 105, 99, 101, 32, 105, 100, 58, 32, 65, 80, 57>>  \* "device id: AP9"
LineGi1 == <<73, 110, 116, 101, 114, 102, 97, 99, 101, 58, 32, 71, 105, 49, 44, 32, 80, 111>>  \* "Interface: Gi1, Po"
LineGi2 == <<73, 110, 116, 101, 114, 102, 97, 99, 101, 58, 32, 71, 105, 50>>  \* "Interface: Gi2"
LineHold == <<72, 111, 108, 100>>  \* "Hold"
CdpLineChoices == {LineBadAp, LineGoodAp, LineLowerDeviceId, LineGi1, LineHold}

RowGi1Up == <<71, 105, 49, 32, 117, 112>>  \* "Gi1 up"
RowGi1Lab == <<71, 105, 49, 32, 160, 108, 97, 98, 12288, 12288, 97, 112, 32>>  \* "Gi1 \xa0lab\u3000\u3000ap "
RowGi1Bare == <<71, 105, 49>>  \* "Gi1"
RowGi2 == <<71, 105, 50, 32, 120>>  \* "Gi2 x"
IfRowChoices == {RowGi1Up, RowGi1Lab, RowGi1Bare, RowGi2}

CdpTextsForRows == {
  Text(<<LineHold, LineBadAp, LineGi1, LineHold>>),
  Text(<<LineBadAp, LineGi2, LineHold, LineGoodAp, LineGi1, LineHold, <<68, 101, 118, 105, 99, 101, 32, 73, 68, 58, 32, 65, 80, 55>>, <<73, 110, 116, 101, 114, 102, 97, 99, 101, 58, 32, 71, 105, 51>>, LineHold>>),  \* "Device ID: AP7", "Interface: Gi3"
  Text(<<<<68, 101, 118, 105, 99, 101, 32, 73, 68, 58, 32, 65, 80, 55>>, LineGi1, LineHold, LineLowerDeviceId>>) }  \* "Device ID: AP7"

ScanIdle ==
  /\ cdp_text = <<>> /\ ifdesc_text = <<>> /\ ifdesc_map = EmptyMap /\ cdp_lines = <<>>
  /\ line_no = 0 /\ current_ap = None /\ current_port = None /\ bad_aps = <<>>
  /\ scan_pc = "idle" /\ ap_line = 0 /\ port_line = 0 /\ evals = <<>>

AnalyzeIdle ==
  /\ err_text = <<>> /\ power_text = <<>> /\ dhcp_log_text = <<>> /\ cpu_text = <<>>
  /\ temp_text = <<>> /\ current_month = <<>> /\ cpu_parts = <<>> /\ issues = <<>>
  /\ an_pc = "idle"

LoopIdle ==
  /\ switch_ips = <<>> /\ ip_i = 0 /\ loop_pc = "idle" /\ outputs = <<>> /\ hostname = <<>>
  /\ exc = <<>> /\ all_results = <<>> /\ analyze_calls = {} /\ fetch_failed = {}

\* ------------------------------------------------------------------------
\* extract_bad_ap_names as a state machine
\* ------------------------------------------------------------------------
ScanCalled ==
  /\ ifdesc_map = EmptyMap /\ cdp_lines = <<>> /\ line_no = 0
  /\ current_ap = None /\ current_port = None /\ bad_aps = <<>>
  /\ scan_pc = "start" /\ ap_line = 0 /\ port_line = 0 /\ evals = <<>>

\* the locals as the record the line operators work on
Locals == [current_ap |-> current_ap, current_port |-> current_port, bad_aps |-> bad_aps, raised |-> ""]

ThisLine == strip(cdp_lines[line_no])
Scanning == scan_pc = "scan" /\ line_no <= Len(cdp_lines)

\* lines 11-23 and the splitlines of line 25
ScanBegin ==
  /\ scan_pc = "start"
  /\ ifdesc_map' = ifdesc_map_of(ifdesc_text)
  /\ cdp_lines' = splitlines(cdp_text)
  /\ line_no' = 1
  /\ scan_pc' = "scan"
  /\ UNCHANGED <<cdp_text, ifdesc_text, current_ap, current_port, bad_aps, ap_line, port_line, evals, anVars, loopVars>>

\* lines 27-28, the subscript [1] in range
ScanDeviceId ==
  /\ Scanning /\ IsDeviceIdLine(ThisLine)
  /\ on_device_id(Locals, ThisLine).raised = ""
  /\ current_ap' = on_device_id(Locals, ThisLine).current_ap
  /\ ap_line' = line_no
  /\ line_no' = line_no + 1
  /\ UNCHANGED <<cdp_text, ifdesc_text, ifdesc_map, cdp_lines, current_port, bad_aps, scan_pc, port_line, evals, anVars, loopVars>>

\* lines 27-28, the subscript [1] out of range: IndexError leaves the function
ScanDeviceIdRaises ==
  /\ Scanning /\ IsDeviceIdLine(ThisLine)
  /\ on_device_id(Locals, ThisLine).raised # ""
  /\ scan_pc' = "raised"
  /\ UNCHANGED <<cdp_text, ifdesc_text, ifdesc_map, cdp_lines, line_no, current_ap, current_port, bad_aps, ap_line, port_line, evals, anVars, loopVars>>

\* lines 29-32
ScanInterface ==
  /\ Scanning /\ IsInterfaceLine(ThisLine)
  /\ current_port' = on_interface(Locals, ThisLine).current_port
  /\ port_line' = IF re_search_interface(ThisLine) # None THEN line_no ELSE port_line
  /\ line_no' = line_no + 1
  /\ UNCHANGED <<cdp_text, ifdesc_text, ifdesc_map, cdp_lines, current_ap, bad_aps, scan_pc, ap_line, evals, anVars, loopVars>>

\* lines 33-38: the record is evaluated and the locals reset
ScanEvaluate ==
  /\ Scanning /\ ~IsDeviceIdLine(ThisLine) /\ ~IsInterfaceLine(ThisLine)
  /\ evaluates(Locals)
  /\ bad_aps' = on_other(Locals, ifdesc_map).bad_aps
  /\ current_ap' = on_other(Locals, ifdesc_map).current_ap
  /\ current_port' = on_other(Locals, ifdesc_map).current_port
  /\ evals' = Append(evals, [ap_line |-> ap_line, port_line |-> port_line, at |-> line_no,
                             ap |-> current_ap, port |-> current_port,
                             finding |-> IF Len(bad_aps') > Len(bad_aps) THEN Len(bad_aps') ELSE 0])
  /\ ap_line' = 0 /\ port_line' = 0
  /\ line_no' = line_no + 1
  /\ UNCHANGED <<cdp_text, ifdesc_text, ifdesc_map, cdp_lines, scan_pc, anVars, loopVars>>

\* line 33 false: the line is passed over
ScanSkip ==
  /\ Scanning /\ ~IsDeviceIdLine(ThisLine) /\ ~IsInterfaceLine(ThisLine)
  /\ ~evaluates(Locals)
  /\ line_no' = line_no + 1
  /\ UNCHANGED <<cdp_text, ifdesc_text, ifdesc_map, cdp_lines, current_ap, current_port, bad_aps, scan_pc, ap_line, port_line, evals, anVars, loopVars>>

\* line 40
ScanReturn ==
  /\ scan_pc = "scan" /\ line_no > Len(cdp_lines)
  /\ scan_pc' = "returned"
  /\ UNCHANGED <<cdp_text, ifdesc_text, ifdesc_map, cdp_lines, line_no, current_ap, current_port, bad_aps, ap_line, port_line, evals, anVars, loopVars>>

ScanNext ==
  \/ ScanBegin \/ ScanDeviceId \/ ScanDeviceIdRaises \/ ScanInterface
  \/ ScanEvaluate \/ ScanSkip \/ ScanReturn

\* the neighbor blob ranges over all texts of up to MaxCdpLines lines
InitNeighbor ==
  /\ cdp_text \in {Text(ls) : ls \in SeqsUpTo(CdpLineChoices, MaxCdpLines)}
  /\ ifdesc_text = Text(<<RowGi1Up>>)
  /\ ScanCalled /\ AnalyzeIdle /\ LoopIdle

SpecNeighbor == InitNeighbor /\ [][ScanNext]_vars

\* the description blob ranges over all texts of up to MaxIfRows rows
InitIfdesc ==
  /\ cdp_text \in CdpTextsForRows
  /\ ifdesc_text \in {Text(rs) : rs \in SeqsUpTo(IfRowChoices, MaxIfRows)}
  /\ ScanCalled /\ AnalyzeIdle /\ LoopIdle

SpecIfdesc == InitIfdesc /\ [][ScanNext]_vars

\* ------------------------------------------------------------------------
\* Claims about extract_bad_ap_names
\* ------------------------------------------------------------------------
\* what the explored neighbor lines are, told from the line itself
DeviceIdLines == {LineBadAp, LineGoodAp, LineLowerDeviceId}
ProperDeviceIdLines == {LineBadAp, LineGoodAp}
BadNameLines == {LineBadAp}
InterfaceLines == {LineGi1}

\* lines i and j hold a record: a "Device ID:" line, then the first
\* "Interface:" line after it, with no other "Device ID:" line between them
Block(i, j) ==
  /\ i \in DOMAIN cdp_lines /\ j \in DOMAIN cdp_lines /\ i < j
  /\ cdp_lines[i] \in ProperDeviceIdLines
  /\ cdp_lines[j] \in InterfaceLines
  /\ \A k \in (i + 1)..(j - 1) : cdp_lines[k] \notin DeviceIdLines \cup InterfaceLines

EvalsOf(i, j) == {k \in DOMAIN evals : evals[k].ap_line = i /\ evals[k].port_line = j}

\* C2: when extract_bad_ap_names returns, every record of the blob (a
\* "Device ID:" line followed later by an "Interface:" line, whatever follows
\* the "Interface:" line) has been evaluated exactly once, and it yielded an
\* issue exactly when its device id breaks the naming convention.
C2_EveryRecordEvaluatedOnce ==
  scan_pc = "returned" =>
    \A i, j \in DOMAIN cdp_lines :
      Block(i, j) =>
        /\ Cardinality(EvalsOf(i, j)) = 1
        /\ \A k \in EvalsOf(i, j) : (evals[k].finding > 0) <=> (cdp_lines[i] \in BadNameLines)

\* an "Interface:" line follows line i before the next "Device ID:" line
HasInterfaceAfter(i) ==
  \E j \in (i + 1)..Len(cdp_lines) :
    /\ cdp_lines[j] \in InterfaceLines
    /\ \A x \in (i + 1)..j : cdp_lines[x] \notin DeviceIdLines

\* C3: when extract_bad_ap_names returns, a "Device ID:" line with no
\* "Interface:" line after it and before the next "Device ID:" line (or the
\* end of the blob) has produced no finding, whatever lines precede it.
C3_NoFindingForIncompleteRecord ==
  scan_pc = "returned" =>
    \A k \in DOMAIN evals : evals[k].finding > 0 => HasInterfaceAfter(evals[k].ap_line)

\* line j is an "Interface:" line that comes after an evaluation and before
\* the next "Device ID:" line
OrphanInterface(j) ==
  /\ j \in DOMAIN cdp_lines
  /\ cdp_lines[j] \in InterfaceLines
  /\ \E k \in DOMAIN evals :
       evals[k].at < j /\ \A x \in evals[k].at..j : cdp_lines[x] \notin DeviceIdLines

\* C4: after an evaluation both transient fields are empty and, in what the
\* function returns, an "Interface:" line that comes before the next
\* "Device ID:" line is ignored (the interface it names is reported for no
\* device), and no record is evaluated twice.
C4_InterfaceAfterEvaluationIgnored ==
  /\ (evals # <<>> /\ line_no = evals[Len(evals)].at + 1) => (current_ap = None /\ current_port = None)
  /\ scan_pc = "returned" =>
       /\ \A k \in DOMAIN evals : evals[k].finding > 0 => ~OrphanInterface(evals[k].port_line)
       /\ \A k1, k2 \in DOMAIN evals :
            (evals[k1].ap_line = evals[k2].ap_line /\ evals[k1].port_line = evals[k2].port_line) => k1 = k2

\* the interface name and the description of the explored description rows,
\* told from the row itself (a row of one word has an empty remainder)
RowName(row) == <<71, 105>> \o <<row[3]>>  \* "Gi"
RowDescription(row) ==
  IF row = RowGi1Up THEN <<117, 112>>  \* "up"
  ELSE IF row = RowGi1Lab THEN <<108, 97, 98, 32, 97, 112>>  \* "lab ap"
  ELSE IF row = RowGi2 THEN <<120>>  \* "x"
  ELSE <<>>
RowHasDescription(row) == row # RowGi1Bare

IfRows == splitlines(ifdesc_text)
RowsNamed(name) == {r \in DOMAIN IfRows : RowName(IfRows[r]) = name}
DescribedRowsNamed(name) == {r \in RowsNamed(name) : RowHasDescription(IfRows[r])}

\* the description of the last row of the set, the placeholder when there is none
LastDescription(rows) ==
  IF rows = {} THEN NoDescription ELSE RowDescription(IfRows[SetMax(rows)])

Findings == {k \in DOMAIN evals : evals[k].finding > 0}

\* the findings of the list the function returns
ReturnedFindings == IF scan_pc = "returned" THEN Findings ELSE {}

\* C9 as stated: a returned finding reports the description (the remainder after the
\* first word) of the last row whose first word is its interface, and the
\* placeholder when no row names the interface.  (When that last row has one
\* word only, its empty remainder and the placeholder both pass.)
C9_LastRowWins ==
  \A k \in ReturnedFindings :
    LET rows == RowsNamed(evals[k].port)
        said(desc) == bad_aps[evals[k].finding]
                        = evals[k].ap \o <<32, 111, 110, 32>> \o evals[k].port \o <<32, 8212, 32>> \o desc  \* " on ", " \u2014 "
    IN  IF rows # {} /\ ~RowHasDescription(IfRows[SetMax(rows)])
        THEN said(<<>>) \/ said(NoDescription)
        ELSE said(LastDescription(rows))

\* C9 as amended: a returned finding reports the description of the last row of at
\* least two words whose first word is its interface, and the placeholder
\* when there is no such row.
C9_LastDescribedRowWins ==
  \A k \in ReturnedFindings :
    bad_aps[evals[k].finding]
      = evals[k].ap \o <<32, 111, 110, 32>> \o evals[k].port \o <<32, 8212, 32>>  \* " on ", " \u2014 "
          \o LastDescription(DescribedRowsNamed(evals[k].port))

\* a finding whose interface is named by two described rows with different
\* descriptions, and by a later row of one word
C9_Witness ==
  /\ scan_pc = "returned"
  /\ \E k \in Findings :
       \E r1, r2, r3 \in RowsNamed(evals[k].port) :
         /\ r1 < r2 /\ r2 < r3
         /\ RowHasDescription(IfRows[r1]) /\ RowHasDescription(IfRows[r2])
         /\ RowDescription(IfRows[r1]) # RowDescription(IfRows[r2])
         /\ ~RowHasDescription(IfRows[r3])

\* ------------------------------------------------------------------------
\* analyze_all as a state machine: the call and its outcome
\* ------------------------------------------------------------------------
ErrTexts == {
  <<>>,
  <<71, 105, 49, 32, 101, 114, 114, 45, 100, 105, 115, 97, 98, 108, 101, 100>>,  \* "Gi1 err-disabled"
  Text(<<<<80, 111, 114, 116, 32, 83, 116, 97, 116, 117, 115>>, <<71, 105, 49, 32, 69, 82, 82, 45, 68, 73, 83, 65, 66, 76, 69, 68>>, <<32, 71, 105, 50, 32, 101, 114, 114, 45, 100, 105, 115, 97, 98, 108, 101, 100, 32>>>>) }  \* "Port Status", "Gi1 ERR-DISABLED", " Gi2 err-disabled "
PowerTexts == {
  <<>>,
  Text(<<<<80, 83, 49, 32, 111, 107>>, <<80, 83, 50, 32, 78, 111, 116, 32, 80, 114, 101, 115, 101, 110, 116>>>>),  \* "PS1 ok", "PS2 Not Present"
  Text(<<<<80, 83, 49, 32, 98, 97, 100>>, <<80, 83, 50, 32, 102, 97, 105, 108>>>>) }  \* "PS1 bad", "PS2 fail"
DhcpTexts == {
  <<>>,
  Text(<<<<79, 99, 116, 32, 51, 32, 37, 68, 72, 67, 80, 95, 83, 78, 79, 79, 80, 73, 78, 71, 45, 53>>, <<83, 101, 112, 32, 49, 32, 37, 68, 72, 67, 80, 95, 83, 78, 79, 79, 80, 73, 78, 71, 45, 53>>, <<79, 99, 116, 32, 52, 32, 117, 112>>>>) }  \* "Oct 3 %DHCP_SNOOPING-5", "Sep 1 %DHCP_SNOOPING-5", "Oct 4 up"
Months == {<<79, 99, 116>>, <<78, 111, 118>>}  \* "Oct", "Nov"
TempHot2 == <<73, 110, 108, 101, 116, 32, 52, 53, 46, 48, 32, 53, 48, 46, 50>>  \* "Inlet 45.0 50.2"
TempHot3 == Text(<<<<73, 110, 108, 101, 116, 32, 52, 53, 46, 50, 53>>, <<105, 110, 108, 101, 116, 160, 51, 55, 46, 55, 56, 32, 110, 97, 110, 32, 49, 101, 50>>>>)  \* "Inlet 45.25", "inlet\xa037.78 nan 1e2"
TempTexts == {
  <<>>,
  TempHot2,
  TempHot3,
  Text(<<<<73, 110, 108, 101, 116, 32, 51, 48, 46, 48>>, <<79, 117, 116, 108, 101, 116, 32, 54, 48, 46, 48>>>>) }  \* "Inlet 30.0", "Outlet 60.0"
CdpTexts == {
  <<>>,
  Text(<<LineBadAp, LineGi1, LineHold>>),
  Text(<<LineLowerDeviceId, LineGi1, LineHold>>) }

Cpu60 == <<102, 105, 118, 101, 32, 109, 105, 110, 117, 116, 101, 115, 58, 32, 54, 48, 37>>  \* "five minutes: 60%"
Cpu61 == <<102, 105, 118, 101, 32, 109, 105, 110, 117, 116, 101, 115, 58, 32, 54, 49, 37>>  \* "five minutes: 61%"
Cpu40 == <<102, 105, 118, 101, 32, 109, 105, 110, 117, 116, 101, 115, 58, 32, 52, 48, 37>>  \* "five minutes: 40%"
CpuNoPercent == <<102, 105, 118, 101, 32, 109, 105, 110, 117, 116, 101, 115, 58, 32, 55, 53>>  \* "five minutes: 75"
CpuCapital == <<70, 105, 118, 101, 32, 109, 105, 110, 117, 116, 101, 115, 58, 32, 57, 48, 37>>  \* "Five minutes: 90%"
CpuArabic == <<102, 105, 118, 101, 32, 109, 105, 110, 117, 116, 101, 115, 58, 32, 1638, 1633, 37>>  \* "five minutes: \u0666\u0661%"
CpuPartChoices == {Cpu60, Cpu61, Cpu40, CpuNoPercent, CpuCapital, CpuArabic}
\* a percentage of one digit more than int() converts
LongNumber == [i \in 1..(MaxStrDigits + 1) |-> 57]
CpuLong == <<102, 105, 118, 101, 32, 109, 105, 110, 117, 116, 101, 115, 58, 32>> \o LongNumber \o <<37>>  \* "five minutes: ", "%"

AnalyzeCalled == issues = <<>> /\ an_pc = "call"

\* every blob varies, the CPU blob among three texts
InitAnalyzeBlobs ==
  /\ err_text \in ErrTexts /\ power_text \in PowerTexts /\ dhcp_log_text \in DhcpTexts
  /\ temp_text \in TempTexts /\ cdp_text \in CdpTexts
  /\ cpu_parts \in {<<>>, <<Cpu61>>, <<Cpu40>>}

\* the CPU blob ranges over all texts of up to MaxCpuParts pieces, the other
\* blobs being all empty or all with findings
InitAnalyzeCpu ==
  /\ cpu_parts \in SeqsUpTo(CpuPartChoices, MaxCpuParts)
  /\ \/ /\ err_text = <<>> /\ power_text = <<>> /\ dhcp_log_text = <<>>
        /\ temp_text = <<>> /\ cdp_text = <<>>
     \/ /\ err_text = <<71, 105, 49, 32, 101, 114, 114, 45, 100, 105, 115, 97, 98, 108, 101, 100>> /\ power_text = Text(<<<<80, 83, 49, 32, 98, 97, 100>>, <<80, 83, 50, 32, 102, 97, 105, 108>>>>)  \* "Gi1 err-disabled", "PS1 bad", "PS2 fail"
        /\ dhcp_log_text = <<79, 99, 116, 32, 51, 32, 37, 68, 72, 67, 80, 95, 83, 78, 79, 79, 80, 73, 78, 71, 45, 53>>  \* "Oct 3 %DHCP_SNOOPING-5"
        /\ temp_text = TempHot2 /\ cdp_text = Text(<<LineBadAp, LineGi1, LineHold>>)

\* the CPU blob holds the long percentage
InitAnalyzeLong ==
  /\ cpu_parts = <<CpuLong>>
  /\ err_text \in ErrTexts /\ power_text = <<>> /\ dhcp_log_text = <<>>
  /\ temp_text = <<>> /\ cdp_text \in CdpTexts

InitAnalyze ==
  /\ InitAnalyzeBlobs \/ InitAnalyzeCpu \/ InitAnalyzeLong
  /\ cpu_text = join(<<32>>, cpu_parts)  \* " "
  /\ current_month = <<>>
  /\ ifdesc_text = Text(<<RowGi1Up>>)
  /\ AnalyzeCalled
  /\ ifdesc_map = EmptyMap /\ cdp_lines = <<>> /\ line_no = 0
  /\ current_ap = None /\ current_port = None /\ bad_aps = <<>>
  /\ scan_pc = "idle" /\ ap_line = 0 /\ port_line = 0 /\ evals = <<>>
  /\ LoopIdle

\* the call, month being what the clock says at line 59
Analyzed(month) == analyze_all(err_text, power_text, dhcp_log_text, cpu_text, temp_text, cdp_text, ifdesc_text, month)

\* lines 43-96 run to the return of line 96; line 59 reads the month from the clock
AnalyzeReturns ==
  /\ an_pc = "call"
  /\ \E month \in Months :
       /\ current_month' = month
       /\ \E result \in {Analyzed(month)} :
            /\ result.raised = ""
            /\ issues' = result.value
  /\ an_pc' = "returned"
  /\ UNCHANGED <<err_text, power_text, dhcp_log_text, cpu_text, temp_text, cpu_parts, scanVars, loopVars>>

\* line 71 or the call of line 89 raises and the exception leaves analyze_all,
\* after line 59 read the month
AnalyzeRaises ==
  /\ an_pc = "call"
  /\ \E month \in Months :
       /\ current_month' = month
       /\ Analyzed(month).raised # ""
  /\ an_pc' = "raised"
  /\ UNCHANGED <<err_text, power_text, dhcp_log_text, cpu_text, temp_text, cpu_parts, issues, scanVars, loopVars>>

AnalyzeNext == AnalyzeReturns \/ AnalyzeRaises

SpecAnalyze == InitAnalyze /\ [][AnalyzeNext]_vars

\* ------------------------------------------------------------------------
\* The per-device loop, lines 107-145
\* ------------------------------------------------------------------------
Addresses == {<<49, 48, 46, 48, 46, 48, 46, 49>>, <<49, 48, 46, 48, 46, 48, 46, 50>>}  \* "10.0.0.1", "10.0.0.2"
Prompts == {<<115, 119, 49, 35>>}  \* "sw1#"
\* str(e) of what ConnectHandler, send_command, find_prompt and disconnect raise
ConnectErrors == {<<84, 67, 80, 32, 99, 111, 110, 110, 101, 99, 116, 105, 111, 110, 32, 116, 111, 32, 100, 101, 118, 105, 99, 101, 32, 102, 97, 105, 108, 101, 100>>, <<65, 117, 116, 104, 101, 110, 116, 105, 99, 97, 116, 105, 111, 110, 32, 116, 111, 32, 100, 101, 118, 105, 99, 101, 32, 102, 97, 105, 108, 101, 100, 46>>}  \* "TCP connection to device failed", "Authentication to device failed."
CommandErrors == {<<80, 97, 116, 116, 101, 114, 110, 32, 110, 111, 116, 32, 100, 101, 116, 101, 99, 116, 101, 100>>}  \* "Pattern not detected"
SessionErrors == {<<83, 111, 99, 107, 101, 116, 32, 105, 115, 32, 99, 108, 111, 115, 101, 100>>}  \* "Socket is closed"
NumCommands == 7

\* what the k-th send_command of lines 121-127 can return
CommandOutputs(k) ==
  IF k = 1 THEN {<<>>, <<71, 105, 49, 32, 101, 114, 114, 45, 100, 105, 115, 97, 98, 108, 101, 100>>}  \* "Gi1 err-disabled"
  ELSE IF k = 3 THEN {<<>>, <<79, 99, 116, 32, 51, 32, 37, 68, 72, 67, 80, 95, 83, 78, 79, 79, 80, 73, 78, 71, 45, 53>>}  \* "Oct 3 %DHCP_SNOOPING-5"
  ELSE IF k = 4 THEN {Cpu40}
  ELSE IF k = 6 THEN {Text(<<LineBadAp, LineGi1, LineHold>>), Text(<<LineLowerDeviceId, LineGi1, LineHold>>)}
  ELSE IF k = 7 THEN {Text(<<RowGi1Up>>)}
  ELSE {<<>>}

\* s.strip(chars)
strip_chars(s, chars) ==
  LET keep == {i \in 1..Len(s) : s[i] \notin SeqRange(chars)}
  IN  IF keep = {} THEN <<>> ELSE SubSeq(s, SetMin(keep), SetMax(keep))

FailurePrefix == <<10060, 32, 70, 97, 105, 108, 101, 100, 32, 116, 111, 32, 99, 111, 110, 110, 101, 99, 116, 58, 32>>  \* "\u274c Failed to connect: "

\* the issues of a failed device left empty
failure_issues_empty(e) == <<>>
\* the issue list of line 145
failure_issues(e) == <<FailurePrefix \o e>>

\* the dict of line 142
device_report(name, ip, iss) == [hostname |-> name, ip |-> ip, issues |-> iss]

\* the handler appending nothing
handle_exception_dropped(results, ip, e) == results
\* line 145
handle_exception(results, ip, e) == Append(results, device_report(ip, ip, failure_issues(e)))

ThisIp == switch_ips[ip_i]
\* the call of lines 132-140, month being what the clock says at line 59
LoopAnalyzed(month) == analyze_all(outputs[1], outputs[2], outputs[3], outputs[4], outputs[5], outputs[6], outputs[7], month)

InitLoop ==
  /\ switch_ips \in SeqsUpTo(Addresses, MaxDevices)
  /\ current_month = <<>>
  /\ ip_i = 0 /\ loop_pc = "for" /\ outputs = <<>> /\ hostname = <<>> /\ exc = <<>>
  /\ all_results = <<>> /\ analyze_calls = {} /\ fetch_failed = {}
  /\ ScanIdle
  /\ err_text = <<>> /\ power_text = <<>> /\ dhcp_log_text = <<>> /\ cpu_text = <<>>
  /\ temp_text = <<>> /\ cpu_parts = <<>> /\ issues = <<>> /\ an_pc = "idle"

\* the variables of the analyzer that the loop leaves alone but for the month,
\* which every call of analyze_all reads from the clock
analyzerRest == <<scanVars, err_text, power_text, dhcp_log_text, cpu_text, temp_text, cpu_parts, issues, an_pc>>
loopRest == <<analyzerRest, current_month>>

\* line 109: the next address of the list
NextDevice ==
  /\ loop_pc = "for" /\ ip_i < Len(switch_ips)
  /\ ip_i' = ip_i + 1
  /\ outputs' = <<>> /\ hostname' = <<>> /\ exc' = <<>>
  /\ loop_pc' = "connect"
  /\ UNCHANGED <<switch_ips, all_results, analyze_calls, fetch_failed, loopRest>>

\* line 109: the list is exhausted
LoopEnd ==
  /\ loop_pc = "for" /\ ip_i = Len(switch_ips)
  /\ loop_pc' = "done"
  /\ UNCHANGED <<switch_ips, ip_i, outputs, hostname, exc, all_results, analyze_calls, fetch_failed, loopRest>>

\* line 119
Connect ==
  /\ loop_pc = "connect"
  /\ loop_pc' = "send"
  /\ UNCHANGED <<switch_ips, ip_i, outputs, hostname, exc, all_results, analyze_calls, fetch_failed, loopRest>>

\* line 119 raises
ConnectFails ==
  /\ loop_pc = "connect"
  /\ \E e \in ConnectErrors : exc' = e
  /\ fetch_failed' = fetch_failed \cup {ip_i}
  /\ loop_pc' = "except"
  /\ UNCHANGED <<switch_ips, ip_i, outputs, hostname, all_results, analyze_calls, loopRest>>

\* one of lines 121-127
SendCommand ==
  /\ loop_pc = "send" /\ Len(outputs) < NumCommands
  /\ \E out \in CommandOutputs(Len(outputs) + 1) : outputs' = Append(outputs, out)
  /\ UNCHANGED <<switch_ips, ip_i, loop_pc, hostname, exc, all_results, analyze_calls, fetch_failed, loopRest>>

\* one of lines 121-127 raises
SendCommandFails ==
  /\ loop_pc = "send" /\ Len(outputs) < NumCommands
  /\ \E e \in CommandErrors : exc' = e
  /\ fetch_failed' = fetch_failed \cup {ip_i}
  /\ loop_pc' = "except"
  /\ UNCHANGED <<switch_ips, ip_i, outputs, hostname, all_results, analyze_calls, loopRest>>

\* line 128
FindPrompt ==
  /\ loop_pc = "send" /\ Len(outputs) = NumCommands
  /\ \E p \in Prompts : hostname' = strip_chars(p, <<35>>)  \* "#"
  /\ loop_pc' = "disconnect"
  /\ UNCHANGED <<switch_ips, ip_i, outputs, exc, all_results, analyze_calls, fetch_failed, loopRest>>

\* line 128 raises
FindPromptFails ==
  /\ loop_pc = "send" /\ Len(outputs) = NumCommands
  /\ \E e \in SessionErrors : exc' = e
  /\ loop_pc' = "except"
  /\ UNCHANGED <<switch_ips, ip_i, outputs, hostname, all_results, analyze_calls, fetch_failed, loopRest>>

\* line 130
Disconnect ==
  /\ loop_pc = "disconnect"
  /\ loop_pc' = "analyze"
  /\ UNCHANGED <<switch_ips, ip_i, outputs, hostname, exc, all_results, analyze_calls, fetch_failed, loopRest>>

\* line 130 raises
DisconnectFails ==
  /\ loop_pc = "disconnect"
  /\ \E e \in SessionErrors : exc' = e
  /\ loop_pc' = "except"
  /\ UNCHANGED <<switch_ips, ip_i, outputs, hostname, all_results, analyze_calls, fetch_failed, loopRest>>

\* lines 132-142: analyze_all reads the month from the clock (line 59),
\* returns, and the report is appended
AnalyzeAndAppend ==
  /\ loop_pc = "analyze"
  /\ \E month \in Months :
       /\ current_month' = month
       /\ \E result \in {LoopAnalyzed(month)} :
            /\ result.raised = ""
            /\ all_results' = Append(all_results, device_report(hostname, ThisIp, result.value))
  /\ analyze_calls' = analyze_calls \cup {ip_i}
  /\ loop_pc' = "for"
  /\ UNCHANGED <<switch_ips, ip_i, outputs, hostname, exc, fetch_failed, analyzerRest>>

\* line 132: analyze_all reads the month from the clock (line 59) and raises
AnalyzeFails ==
  /\ loop_pc = "analyze"
  /\ \E month \in Months :
       /\ current_month' = month
       /\ \E result \in {LoopAnalyzed(month)} :
            /\ result.raised # ""
            /\ exc' = result.message
  /\ analyze_calls' = analyze_calls \cup {ip_i}
  /\ loop_pc' = "except"
  /\ UNCHANGED <<switch_ips, ip_i, outputs, hostname, all_results, fetch_failed, analyzerRest>>

\* lines 144-145
HandleException ==
  /\ loop_pc = "except"
  /\ all_results' = handle_exception(all_results, ThisIp, exc)
  /\ loop_pc' = "for"
  /\ UNCHANGED <<switch_ips, ip_i, outputs, hostname, exc, analyze_calls, fetch_failed, loopRest>>

Init == InitLoop

Next ==
  \/ NextDevice \/ LoopEnd
  \/ Connect \/ ConnectFails
  \/ SendCommand \/ SendCommandFails
  \/ FindPrompt \/ FindPromptFails
  \/ Disconnect \/ DisconnectFails
  \/ AnalyzeAndAppend \/ AnalyzeFails
  \/ HandleException

Spec == Init /\ [][Next]_vars

\* ------------------------------------------------------------------------
\* Claims about analyze_all
\* ------------------------------------------------------------------------
\* C1: analyze_all never raises, whatever the seven blobs hold.
C1_AnalyzeNeverRaises == an_pc # "raised"

\* what the explored blobs hold, told from the blob itself: the lines each
\* category has to report
ExpectedErr ==
  IF err_text = <<>> THEN <<>>
  ELSE IF err_text = <<71, 105, 49, 32, 101, 114, 114, 45, 100, 105, 115, 97, 98, 108, 101, 100>> THEN <<<<71, 105, 49, 32, 101, 114, 114, 45, 100, 105, 115, 97, 98, 108, 101, 100>>>>  \* "Gi1 err-disabled", "Gi1 err-disabled"
  ELSE <<<<71, 105, 49, 32, 69, 82, 82, 45, 68, 73, 83, 65, 66, 76, 69, 68>>, <<71, 105, 50, 32, 101, 114, 114, 45, 100, 105, 115, 97, 98, 108, 101, 100>>>>  \* "Gi1 ERR-DISABLED", "Gi2 err-disabled"
ExpectedPower ==
  IF power_text = <<>> THEN <<>>
  ELSE IF power_text = Text(<<<<80, 83, 49, 32, 111, 107>>, <<80, 83, 50, 32, 78, 111, 116, 32, 80, 114, 101, 115, 101, 110, 116>>>>) THEN <<<<80, 83, 50, 32, 78, 111, 116, 32, 80, 114, 101, 115, 101, 110, 116>>>>  \* "PS1 ok", "PS2 Not Present", "PS2 Not Present"
  ELSE <<<<80, 83, 49, 32, 98, 97, 100>>, <<80, 83, 50, 32, 102, 97, 105, 108>>>>  \* "PS1 bad", "PS2 fail"
ExpectedDhcp ==
  IF dhcp_log_text = <<>> \/ current_month # <<79, 99, 116>> THEN <<>> ELSE <<<<79, 99, 116, 32, 51, 32, 37, 68, 72, 67, 80, 95, 83, 78, 79, 79, 80, 73, 78, 71, 45, 53>>>>  \* "Oct", "Oct 3 %DHCP_SNOOPING-5"
\* the decimal numeral of the N a piece of the CPU blob spells, None when the
\* piece does not spell "five minutes: N%" in full
CpuPercent(part) ==
  IF part = Cpu60 THEN <<54, 48>>  \* "60"
  ELSE IF part \in {Cpu61, CpuArabic} THEN <<54, 49>>  \* "61"
  ELSE IF part = Cpu40 THEN <<52, 48>>  \* "40"
  ELSE IF part = CpuLong THEN LongNumber
  ELSE None
CpuOccurrences == {i \in DOMAIN cpu_parts : CpuPercent(cpu_parts[i]) # None}
FirstCpuPercent == IF CpuOccurrences = {} THEN None ELSE CpuPercent(cpu_parts[SetMin(CpuOccurrences)])
\* the first N is above 60
FirstCpuAboveSixty == FirstCpuPercent \in {<<54, 49>>, LongNumber}  \* "61"
ExpectedCpuCount == IF FirstCpuAboveSixty THEN 1 ELSE 0
ExpectedTempCount == IF temp_text = TempHot2 THEN 2 ELSE IF temp_text = TempHot3 THEN 3 ELSE 0
ExpectedAp ==
  IF cdp_text = Text(<<LineBadAp, LineGi1, LineHold>>) THEN <<<<65, 80, 70, 50, 32, 111, 110, 32, 71, 105, 49, 32, 8212, 32, 117, 112>>>> ELSE <<>>  \* "APF2 on Gi1 \u2014 up"
TotalFindings ==
  Len(ExpectedErr) + Len(ExpectedPower) + Len(ExpectedDhcp) + ExpectedCpuCount
    + ExpectedTempCount + Len(ExpectedAp)

\* C5: the returned list is never empty; it is exactly the fallback entry when
\* no category has a finding, and holds no fallback entry when one has.
C5_FallbackOnlyWhenNoFinding ==
  an_pc = "returned" =>
    /\ issues # <<>>
    /\ TotalFindings = 0 => issues = <<NoIssues>>
    /\ TotalFindings > 0 => \A i \in DOMAIN issues : issues[i] # NoIssues

\* blobs that are not empty and hold nothing to report
C5_Witness ==
  /\ an_pc = "returned" /\ issues = <<NoIssues>>
  /\ temp_text # <<>> /\ cpu_parts # <<>> /\ TotalFindings = 0

\* the category an entry of the list belongs to, told from its text: 1 the
\* interface-error header, 2 power, 3 the security-logging header, 4 CPU,
\* 5 temperature, 6 the topology header, 0 a sub-item, 7 anything else
Kind(x) ==
  IF x = ErrHeader THEN 1
  ELSE IF startswith(x, PowerPrefix) THEN 2
  ELSE IF x = DhcpHeader THEN 3
  ELSE IF startswith(x, CpuPrefix) THEN 4
  ELSE IF startswith(x, TempPrefix) THEN 5
  ELSE IF x = ApHeader THEN 6
  ELSE IF startswith(x, SubItemPrefix) THEN 0
  ELSE 7
HeaderKinds == {1, 3, 6}
ExpectedUnder(kind) == IF kind = 1 THEN ExpectedErr ELSE IF kind = 3 THEN ExpectedDhcp ELSE ExpectedAp
OfKind(kind) == {i \in DOMAIN issues : Kind(issues[i]) = kind}

\* C6: the returned list is the categories' findings in the order interface
\* errors, power, security-logging, CPU, temperature, topology: no entry of a
\* later category precedes one of an earlier category, a header appears only
\* for a category with sub-items and is followed at once by exactly these
\* sub-items, and a sub-item appears nowhere else.
C6_FixedCategoryOrder ==
  (an_pc = "returned" /\ TotalFindings > 0) =>
    /\ \A i, j \in DOMAIN issues :
         (i < j /\ Kind(issues[i]) # 0 /\ Kind(issues[j]) # 0) =>
           /\ Kind(issues[i]) <= Kind(issues[j])
           /\ Kind(issues[i]) \in HeaderKinds => Kind(issues[i]) < Kind(issues[j])
    /\ \A i \in DOMAIN issues : Kind(issues[i]) # 7
    /\ \A i \in DOMAIN issues :
         Kind(issues[i]) = 0 => (i > 1 /\ Kind(issues[i - 1]) \in HeaderKinds \cup {0})
    /\ \A h \in DOMAIN issues :
         Kind(issues[h]) \in HeaderKinds =>
           LET own == ExpectedUnder(Kind(issues[h]))
           IN  /\ Len(own) >= 1
               /\ h + Len(own) <= Len(issues)
               /\ \A x \in 1..Len(own) : issues[h + x] = SubItemPrefix \o own[x]
               /\ h + Len(own) < Len(issues) => Kind(issues[h + Len(own) + 1]) # 0
    /\ \A kind \in HeaderKinds : ExpectedUnder(kind) # <<>> => OfKind(kind) # {}
    /\ Cardinality(OfKind(2)) = Len(ExpectedPower)
    /\ \A k \in 1..Len(ExpectedPower) : issues[Nth(OfKind(2), k)] = PowerPrefix \o ExpectedPower[k]
    /\ Cardinality(OfKind(4)) = ExpectedCpuCount
    /\ Cardinality(OfKind(5)) = ExpectedTempCount

\* every category has something to report
C6_Witness ==
  /\ an_pc = "returned"
  /\ Len(ExpectedErr) = 2 /\ Len(ExpectedPower) = 2 /\ Len(ExpectedDhcp) = 1
  /\ ExpectedCpuCount = 1 /\ ExpectedTempCount = 2 /\ Len(ExpectedAp) = 1
  /\ Len(issues) = 12

\* the neighbor blob for which line 28 raises (C1)
NeighborBlobRaises == cdp_text = Text(<<LineLowerDeviceId, LineGi1, LineHold>>)

\* C8: analyze_all returns, and the first "five minutes: N%" of the CPU blob
\* yields exactly one CPU issue reporting N% when N > 60 and none when N <= 60
\* or when the phrase is absent; the later occurrences yield none.  (Stated
\* for the neighbor blobs that do not make line 28 raise.)
C8_CpuFirstOccurrenceAboveSixty ==
  (an_pc \in {"returned", "raised"} /\ ~NeighborBlobRaises) =>
    /\ an_pc = "returned"
    /\ IF FirstCpuAboveSixty
       THEN /\ Cardinality(OfKind(4)) = 1
            /\ \A i \in OfKind(4) : issues[i] = CpuPrefix \o FirstCpuPercent \o <<37, 32, 40, 53, 32, 109, 105, 110, 32, 97, 118, 103, 41>>  \* "% (5 min avg)"
       ELSE OfKind(4) = {}

\* the same of the calls that return: it holds of every N that int() converts
CpuIssueWhenReturned ==
  an_pc = "returned" =>
    IF FirstCpuAboveSixty
    THEN /\ Cardinality(OfKind(4)) = 1
         /\ \A i \in OfKind(4) : issues[i] = CpuPrefix \o FirstCpuPercent \o <<37, 32, 40, 53, 32, 109, 105, 110, 32, 97, 118, 103, 41>>  \* "% (5 min avg)"
    ELSE OfKind(4) = {}

\* ------------------------------------------------------------------------
\* Claims about the per-device loop
\* ------------------------------------------------------------------------
\* C7: a device whose session or command fetch failed gets a report with one
\* issue, the failure line; analyze_all is not called for it; and the loop
\* goes on to the devices after it.
C7_FetchFailureReported ==
  /\ \A i \in fetch_failed : i \notin analyze_calls
  /\ \A i \in fetch_failed :
       (i < ip_i \/ loop_pc \in {"for", "done"}) =>
         /\ i \in DOMAIN all_results
         /\ Len(all_results[i].issues) = 1
         /\ startswith(all_results[i].issues[1], FailurePrefix)
  /\ loop_pc = "done" =>
       \A i \in fetch_failed : \A j \in i..Len(switch_ips) : j \in DOMAIN all_results

\* a device that failed is followed by one that was analyzed
C7_Witness ==
  /\ loop_pc = "done"
  /\ \E i \in fetch_failed : \E j \in analyze_calls : i < j /\ Len(all_results[j].issues) > 1

\* C10: when the loop has finished, all_results holds one report per address
\* of switch_ips, in the order of switch_ips, whichever devices failed.
C10_OneReportPerAddress ==
  loop_pc = "done" =>
    /\ Len(all_results) = Len(switch_ips)
    /\ \A i \in DOMAIN switch_ips : all_results[i].ip = switch_ips[i]

\* a run in which a fetch failed for one device and the analysis raised for another
C10_Witness ==
  /\ loop_pc = "done"
  /\ fetch_failed # {}
  /\ \E j \in analyze_calls : startswith(all_results[j].issues[1], FailurePrefix)

====
